---- MODULE Spec2Model ----
(***************************************************************************)
(* Document gathering and consolidation pipeline of TestGenius:            *)
(* utils/document_processor.py (DocumentProcessor), the DocumentAgent      *)
(* tools of agents/document_agent.py (Spec), the interactive chatbot of    *)
(* test_genius_chatbot.py (SpecChat) and the Text Extractor called on its  *)
(* own (SpecExtract).                                                      *)
(*                                                                         *)
(* Representation.  A text is a sequence of lines.  A file name and a      *)
(* content type are sequences of tokens (words, separators, the extension  *)
(* as the last token of a file name), so that suffix tests, substring      *)
(* tests and the regular expressions of the classifier are computed and    *)
(* not assumed.  A path of the documents folder is a tuple of strings.     *)
(* The bytes of a download are a record: the format they really have, the  *)
(* pages or paragraphs a PDF/Word reader finds in them, and the lines a    *)
(* lenient utf-8 decode gives.                                             *)
(***************************************************************************)
EXTENDS Integers, Sequences, FiniteSets, TLC

\* ------------------------------------------------------------------ bounds
MaxOps == 2        \* gathering tool calls and folder events of one agent run
MaxRounds == 1     \* times the chatbot's main loop starts over in one session
MaxFaults == 1     \* failures the collaborators and the disk show in one run
MaxAttachments == 2 \* attachments of a listed ticket the classifier is called on

\* ------------------------------------------------------------- primitives
\* Texts, paths and content types are sequences, so None and a raised
\* exception are sequences no text, path or content type is equal to.
NULL == <<"<None>">>          \* Python None
RAISE == <<"<raise>">>        \* an exception leaving the call
BadPage == "<bad page>"       \* a page or paragraph whose extraction raises

Range(s) == {s[i] : i \in DOMAIN s}

Last(s) == s[Len(s)]

Front(s) == SubSeq(s, 1, Len(s) - 1)

\* str.lower() on one token
Lower(tok) ==
    CASE tok = "PRD" -> "prd"
      [] tok = "HLD" -> "hld"
      [] tok = "LLD" -> "lld"
      [] tok = "Architecture" -> "architecture"
      [] tok = ".PDF" -> ".pdf"
      [] tok = "Epic" -> "epic"
      [] tok = "Story" -> "story"
      [] tok = "Task" -> "task"
      [] OTHER -> tok

LowerAll(toks) == [i \in DOMAIN toks |-> Lower(toks[i])]

\* s.endswith(suffixes) on a tokenised name
EndsWith(toks, suffixes) == Len(toks) > 0 /\ Last(toks) \in suffixes

\* word in s
Contains(toks, word) == \E i \in DOMAIN toks : toks[i] = word

RECURSIVE StripLeft(_)
StripLeft(text) ==
    IF text = << >> THEN << >>
    ELSE IF Head(text) = "" THEN StripLeft(Tail(text)) ELSE text

RECURSIVE StripRight(_)
StripRight(text) ==
    IF text = << >> THEN << >>
    ELSE IF Last(text) = "" THEN StripRight(Front(text)) ELSE text

\* str.strip() on a text: blank lines at both ends go
Strip(text) == StripRight(StripLeft(text))

\* ------------------------------------------------------- downloaded bytes
GoodPdf == [fmt |-> "pdf", parts |-> <<"alpha", "beta">>, raw |-> <<"%PDF">>]
BadPagePdf == [fmt |-> "pdf", parts |-> <<"alpha", BadPage, "beta">>, raw |-> <<"%PDF">>]
BlankPdf == [fmt |-> "pdf", parts |-> <<"">>, raw |-> <<"%PDF">>]
GoodDocx == [fmt |-> "docx", parts |-> <<"gamma", "">>, raw |-> <<"PK">>]
HtmlPage == [fmt |-> "html", parts |-> << >>, raw |-> <<"<p>", "delta", "</p>">>]
PlainText == [fmt |-> "text", parts |-> << >>, raw |-> <<"epsilon">>]
Junk == [fmt |-> "junk", parts |-> << >>, raw |-> << >>]

Blobs == {GoodPdf, BadPagePdf, BlankPdf, GoodDocx, HtmlPage, PlainText, Junk}

IsTag(line) == line \in {"<p>", "</p>"}

\* ------------------------------------------------------------ Text Extractor
\* the page loop of _extract_pdf_text / paragraph loop of _extract_docx_text:
\* text += part + "\n"; a part that fails raises out of the loop
ReadParts(parts) == IF \E i \in DOMAIN parts : parts[i] = BadPage THEN RAISE ELSE parts

\* the text of the pages before the first page that fails
RECURSIVE PartsBeforeFailure(_)
PartsBeforeFailure(parts) ==
    IF parts = << >> \/ Head(parts) = BadPage THEN << >>
    ELSE <<Head(parts)>> \o PartsBeforeFailure(Tail(parts))

\* faulty variant: the except clause sits inside the page loop and keeps what was read
ExtractPdfTextPartial(content_bytes) ==
    IF content_bytes.fmt # "pdf" THEN NULL
    ELSE Strip(PartsBeforeFailure(content_bytes.parts))

_extract_pdf_text(content_bytes) ==
    IF content_bytes.fmt # "pdf" THEN NULL          \* PdfReader raises: except -> None
    ELSE LET text == ReadParts(content_bytes.parts)
         IN  IF text = RAISE THEN NULL ELSE Strip(text)

_extract_docx_text(content_bytes) ==
    IF content_bytes.fmt # "docx" THEN NULL         \* Document() raises: except -> None
    ELSE LET text == ReadParts(content_bytes.parts)
         IN  IF text = RAISE THEN NULL ELSE Strip(text)

\* bytes.decode('utf-8', errors='ignore')
Decode(content_bytes) == content_bytes.raw

_extract_html_text(content_bytes) ==
    SelectSeq(Decode(content_bytes), LAMBDA line : ~IsTag(line))

\* the if/elif chain of _extract_text_from_bytes, before its outer try/except:
\* content_type.lower() raises on None, and is not evaluated when the file
\* name already decides the branch.
ExtractDispatch(content_bytes, filename, content_type) ==
    LET name == LowerAll(filename)
        ct == LowerAll(content_type)
    IN  IF EndsWith(name, {".pdf"}) THEN _extract_pdf_text(content_bytes)
        ELSE IF content_type = NULL THEN RAISE
        ELSE IF Contains(ct, "pdf") THEN _extract_pdf_text(content_bytes)
        ELSE IF EndsWith(name, {".docx", ".doc"}) \/ Contains(ct, "word")
             THEN _extract_docx_text(content_bytes)
        ELSE IF EndsWith(name, {".txt", ".md"}) \/ Contains(ct, "text")
             THEN Decode(content_bytes)
        ELSE IF EndsWith(name, {".html"}) \/ Contains(ct, "html")
             THEN _extract_html_text(content_bytes)
        ELSE Decode(content_bytes)

_extract_text_from_bytes(content_bytes, filename, content_type) ==
    LET r == ExtractDispatch(content_bytes, filename, content_type)
    IN  IF r = RAISE THEN NULL ELSE r

\* Python truthiness of an Optional[str]
Truthy(text) == text # NULL /\ text # << >>

\* ------------------------------------------------------ Attachment Classifier
\* A pattern r'.*w1.*w2.*\.ext$' is [words |-> <<w1, w2>>, exts |-> {".ext"}];
\* r'\.docx?$' has exts {".doc", ".docx"}.
Pat(words, exts) == [words |-> words, exts |-> exts]

PdfExt == {".pdf"}
DocExt == {".doc", ".docx"}

prd_patterns ==
    << Pat(<<"prd">>, PdfExt),
       Pat(<<"product", "requirement">>, PdfExt),
       Pat(<<"requirement", "document">>, PdfExt),
       Pat(<<"functional", "spec">>, PdfExt),
       Pat(<<"business", "requirement">>, PdfExt),
       Pat(<<"prd">>, DocExt),
       Pat(<<"product", "requirement">>, DocExt),
       Pat(<<"requirement", "document">>, DocExt) >>

design_patterns ==
    << Pat(<<"hld">>, PdfExt),
       Pat(<<"high", "level", "design">>, PdfExt),
       Pat(<<"lld">>, PdfExt),
       Pat(<<"low", "level", "design">>, PdfExt),
       Pat(<<"technical", "design">>, PdfExt),
       Pat(<<"architecture">>, PdfExt),
       Pat(<<"design", "document">>, PdfExt),
       Pat(<<"hld">>, DocExt),
       Pat(<<"lld">>, DocExt),
       Pat(<<"design">>, DocExt) >>

\* words occur in toks in this order (the .* between the literals)
RECURSIVE OccursInOrder(_, _)
OccursInOrder(words, toks) ==
    IF words = << >> THEN TRUE
    ELSE IF toks = << >> THEN FALSE
    ELSE IF Head(toks) = Head(words) THEN OccursInOrder(Tail(words), Tail(toks))
    ELSE OccursInOrder(words, Tail(toks))

\* re.match(pattern, filename_lower, re.IGNORECASE)
ReMatch(pattern, name) ==
    /\ Len(name) > 0
    /\ Last(name) \in pattern.exts
    /\ OccursInOrder(pattern.words, Front(name))

MatchesAny(patterns, filename) ==
    \E i \in DOMAIN patterns : ReMatch(patterns[i], LowerAll(filename))

\* ticket_data.get('attachments') is truthy
HasAttachments(ticket_data) ==
    "attachments" \in DOMAIN ticket_data /\ ticket_data.attachments # << >>

identify_prd_attachments(ticket_data) ==
    IF ~HasAttachments(ticket_data) THEN << >>
    ELSE SelectSeq(ticket_data.attachments,
                   LAMBDA a : MatchesAny(prd_patterns, a.filename))

\* faulty variant: a match is put in front of the result (insert(0, attachment))
IdentifyDesignNewestFirst(ticket_data) ==
    IF ~HasAttachments(ticket_data) THEN << >>
    ELSE LET found == SelectSeq(ticket_data.attachments,
                                LAMBDA a : MatchesAny(design_patterns, a.filename))
         IN  [i \in DOMAIN found |-> found[Len(found) + 1 - i]]

identify_hld_lld_attachments(ticket_data) ==
    IF ~HasAttachments(ticket_data) THEN << >>
    ELSE SelectSeq(ticket_data.attachments,
                   LAMBDA a : MatchesAny(design_patterns, a.filename))

\* doc_type = "hld" if "hld" in name.lower() or "high" in name.lower() else "lld"
DesignDocType(attachment) ==
    IF Contains(LowerAll(attachment.filename), "hld")
       \/ Contains(LowerAll(attachment.filename), "high")
    THEN "hld" ELSE "lld"

\* ------------------------------------------------------------------ wiki URLs
IsDigits(seg) == seg \in {"123456", "777", "42"}

UrlTokens(url) == url.host \o url.path \o url.query

\* the three patterns of _extract_confluence_page_id, first match wins;
\* a path segment k is followed by "/" exactly when it is not the last one
PagesIdAt(url) == {i \in DOMAIN url.path :
                      /\ url.path[i] = "pages" /\ i + 2 <= Len(url.path)
                      /\ IsDigits(url.path[i + 1])}

QueryIdAt(url) == {i \in DOMAIN url.query :
                      /\ url.query[i] = "pageId=" /\ i + 1 <= Len(url.query)
                      /\ IsDigits(url.query[i + 1])}

SlashIdAt(url) == {i \in DOMAIN url.path : i < Len(url.path) /\ IsDigits(url.path[i])}

Min(S) == CHOOSE x \in S : \A y \in S : x <= y

\* faulty variant: the pageId parameter is looked for before the path
ExtractPageIdQueryFirst(page_url) ==
    IF QueryIdAt(page_url) # {} THEN <<page_url.query[Min(QueryIdAt(page_url)) + 1]>>
    ELSE IF PagesIdAt(page_url) # {} THEN <<page_url.path[Min(PagesIdAt(page_url)) + 1]>>
    ELSE IF SlashIdAt(page_url) # {} THEN <<page_url.path[Min(SlashIdAt(page_url))]>>
    ELSE NULL

_extract_confluence_page_id(page_url) ==
    IF PagesIdAt(page_url) # {} THEN <<page_url.path[Min(PagesIdAt(page_url)) + 1]>>
    ELSE IF QueryIdAt(page_url) # {} THEN <<page_url.query[Min(QueryIdAt(page_url)) + 1]>>
    ELSE IF SlashIdAt(page_url) # {} THEN <<page_url.path[Min(SlashIdAt(page_url))]>>
    ELSE NULL

\* the three patterns of extract_confluence_links
LinkPattern1(url) ==
    /\ Len(url.path) >= 6
    /\ url.path[1] = "wiki" /\ url.path[2] = "spaces" /\ url.path[4] = "pages"
    /\ IsDigits(url.path[5])

LinkPattern2(url) == Len(url.path) >= 3 /\ url.path[1] = "display"

LinkPattern3(url) ==
    /\ Len(url.host) > 0 /\ Last(url.host) = ".atlassian.net"
    /\ Len(url.path) >= 2 /\ url.path[1] = "wiki"

\* list(dict.fromkeys(links)): first occurrences, in order
RECURSIVE Dedupe(_)
Dedupe(links) ==
    IF links = << >> THEN << >>
    ELSE LET front == Dedupe(Front(links))
         IN  IF Last(links) \in Range(front) THEN front ELSE Append(front, Last(links))

\* text is the sequence of URLs the description holds (<< >> for an empty one)
extract_confluence_links(text) ==
    Dedupe(SelectSeq(text, LinkPattern1) \o SelectSeq(text, LinkPattern2)
           \o SelectSeq(text, LinkPattern3))

\* ------------------------------------------------------------- the tracker
PrdV2 == [filename |-> <<"PRD", "-", "v2", ".pdf">>,
          content_type |-> <<"application", "pdf">>]
HldArch == [filename |-> <<"HLD", "_", "Architecture", ".docx">>,
            content_type |-> <<"application", "ms", "word">>]
LldSpec == [filename |-> <<"lld", "-", "spec", ".pdf">>,
            content_type |-> <<"application", "pdf">>]
Notes == [filename |-> <<"random", "_", "notes", ".docx">>,
          content_type |-> <<"application", "ms", "word">>]
EpicPrd == [filename |-> <<"product", "_", "requirement", "s", ".docx">>,
            content_type |-> <<"application", "ms", "word">>]

WikiA == [host |-> <<"example", ".atlassian.net">>,
          path |-> <<"wiki", "spaces", "X", "pages", "123456", "Title">>,
          query |-> << >>]
WikiB == [host |-> <<"confluence", ".corp">>,
          path |-> <<"display", "X", "Title">>, query |-> << >>]
WikiC == [host |-> <<"confluence", ".corp">>,
          path |-> <<"pages", "viewpage.action">>, query |-> <<"pageId=", "777">>]
DocUrl == [host |-> <<"files", ".corp">>,
           path |-> <<"docs", "design", ".pdf">>, query |-> << >>]

Story1 == [key |-> "T-1", issue_type |-> "Story",
           attachments |-> <<PrdV2, HldArch, Notes, LldSpec>>,
           description |-> <<WikiA, WikiB>>, epic_link |-> "E-1"]
Story2 == [key |-> "T-2", issue_type |-> "Task",
           attachments |-> << >>, description |-> << >>, epic_link |-> "none"]
Epic1 == [key |-> "E-1", issue_type |-> "Epic",
          attachments |-> <<EpicPrd>>, description |-> <<WikiC>>, epic_link |-> "none"]

Tickets == {Story1, Story2, Epic1}

\* ------------------------------------------------- collaborators' answers
\* jira_client.download_attachment: the bytes, or an exception
DownloadFailed == [fmt |-> "failed", parts |-> << >>, raw |-> << >>]
Downloads == {DownloadFailed, GoodPdf, GoodDocx}

\* requests.get(...) + raise_for_status() + json() of the wiki REST call
WikiFailed == [ok |-> FALSE, title |-> "", body |-> << >>]
WikiPage == [ok |-> TRUE, title |-> "Design notes", body |-> <<"<p>", "zeta", "</p>">>]
WikiAnswers == {WikiFailed, WikiPage}

\* requests.get(url, timeout=30) of fetch_document_from_url
HttpFailed == [ok |-> FALSE, content_type |-> << >>, content |-> Junk]
HttpPdf == [ok |-> TRUE, content_type |-> <<"application", "pdf">>, content |-> GoodPdf]
HttpHtml == [ok |-> TRUE, content_type |-> <<"text", "html">>, content |-> HtmlPage]
HttpAnswers == {HttpFailed, HttpPdf, HttpHtml}

UserTexts == {<<"u1">>, <<"u2">>}
ContentTypes == {"prd", "design"}
UserUrls == {WikiC, DocUrl}

\* ------------------------------------------------------- documents folder
\* A file holds a sequence of blocks; a unit file holds one block.
Block(kind, name, source, text) ==
    [kind |-> kind, name |-> name, source |-> source, text |-> text]

JiraPath(key) == <<"jira", key, "content.md">>
AttachmentPath(attachment_type, source_ticket, attachment_number) ==
    <<attachment_type, "from", source_ticket, "attachment",
      ToString(attachment_number), "content.md">>
ConfPath(source_ticket, page_number) ==
    <<"conf", "from", source_ticket, "page", ToString(page_number), "content.md">>
UserContentPath(content_type, ticket_key) == <<"user-provided", content_type, ticket_key, ".md">>
UrlDocPath(content_type, ticket_key) ==
    <<"user-provided", content_type, ticket_key, "from-url.md">>
FinalPath == <<"final-content.md">>

Exists(fs, path) == path \in DOMAIN fs

\* faulty variant: open(filepath, 'a')
AppendFile(fs, path, content) ==
    [q \in DOMAIN fs \cup {path} |->
        IF q = path THEN (IF path \in DOMAIN fs THEN fs[path] ELSE << >>) \o content
        ELSE fs[q]]

\* with open(filepath, 'w') as f: f.write(content)
WriteFile(fs, path, content) ==
    [q \in DOMAIN fs \cup {path} |-> IF q = path THEN content ELSE fs[q]]

RemoveFile(fs, path) == [q \in DOMAIN fs \ {path} |-> fs[q]]

\* An operation of DocumentProcessor returns [filepath, files]: what it
\* returns (NULL for None, RAISE when it raises) and the folder it leaves.
Ret(filepath, fs) == [filepath |-> filepath, files |-> fs]

save_jira_content(fs, ticket_data, disk_ok) ==
    IF ~disk_ok THEN Ret(RAISE, fs)
    ELSE Ret(JiraPath(ticket_data.key),
             WriteFile(fs, JiraPath(ticket_data.key),
                       <<Block("jira", <<ticket_data.key>>, <<ticket_data.key>>,
                               <<ticket_data.issue_type>>)>>))

\* faulty variant: the text is saved without the "if not text_content" test
ProcessAttachmentUnchecked(fs, attachment, download, attachment_type, source_ticket, attachment_number) ==
    LET text_content ==
            IF download = DownloadFailed THEN NULL
            ELSE _extract_text_from_bytes(download, attachment.filename,
                                          attachment.content_type)
        filepath == AttachmentPath(attachment_type, source_ticket, attachment_number)
    IN  Ret(filepath,
            WriteFile(fs, filepath,
                      <<Block(attachment_type, attachment.filename,
                              <<source_ticket>>, text_content)>>))

process_attachment(fs, attachment, download, attachment_type, source_ticket, attachment_number) ==
    LET text_content ==
            IF download = DownloadFailed THEN NULL      \* raises: except -> None
            ELSE _extract_text_from_bytes(download, attachment.filename,
                                          attachment.content_type)
        filepath == AttachmentPath(attachment_type, source_ticket, attachment_number)
    IN  IF ~Truthy(text_content) THEN Ret(NULL, fs)
        ELSE Ret(filepath,
                 WriteFile(fs, filepath,
                           <<Block(attachment_type, attachment.filename,
                                   <<source_ticket>>, text_content)>>))

fetch_confluence_page(fs, page_url, answer, source_ticket, page_number) ==
    LET page_id == _extract_confluence_page_id(page_url)
        filepath == ConfPath(source_ticket, page_number)
    IN  IF page_id = NULL THEN Ret(NULL, fs)
        ELSE IF ~answer.ok THEN Ret(NULL, fs)           \* raises: except -> None
        ELSE Ret(filepath,
                 WriteFile(fs, filepath,
                           <<Block("confluence", UrlTokens(page_url), <<source_ticket>>,
                                   SelectSeq(answer.body, LAMBDA line : ~IsTag(line)))>>))

fetch_document_from_url(fs, url, answer, content_type, ticket_key) ==
    LET detected == LowerAll(answer.content_type)
        name == LowerAll(UrlTokens(url))
        text_content ==
            IF Contains(detected, "pdf") \/ EndsWith(name, {".pdf"})
            THEN _extract_pdf_text(answer.content)
            ELSE IF Contains(detected, "word") \/ EndsWith(name, {".doc", ".docx"})
            THEN _extract_docx_text(answer.content)
            ELSE IF Contains(detected, "html") \/ EndsWith(name, {".html"})
            THEN _extract_html_text(answer.content)
            ELSE Decode(answer.content)
        filepath == UrlDocPath(content_type, ticket_key)
    IN  IF ~answer.ok THEN Ret(NULL, fs)                \* raises: except -> None
        ELSE IF ~Truthy(text_content) THEN Ret(NULL, fs)
        ELSE Ret(filepath,
                 WriteFile(fs, filepath,
                           <<Block(content_type, UrlTokens(url), <<ticket_key>>,
                                   text_content)>>))

save_user_content(fs, content, filename) ==
    Ret(filename, WriteFile(fs, filename, <<Block("user", filename, <<"User Input">>, content)>>))

save_markdown_file(fs, content, filename) ==
    Ret(filename, WriteFile(fs, filename, <<Block("markdown", filename, << >>, content)>>))

\* ---------------------------------------------------------------- Consolidator
HeaderBlock == Block("header", << >>, << >>,
                     <<"# Consolidated Content for Test Documentation Generation">>)
Separator == Block("separator", << >>, << >>, <<"---">>)

\* the loop of consolidate_documents: a listed file that does not exist is skipped
RECURSIVE ReadUnits(_, _)
ReadUnits(fs, document_files) ==
    IF document_files = << >> THEN << >>
    ELSE LET doc_file == Head(document_files)
         IN  (IF Exists(fs, doc_file) THEN <<Separator>> \o fs[doc_file] ELSE << >>)
             \o ReadUnits(fs, Tail(document_files))

\* faulty variant: the listing is grouped by category (ticket units first) before it is read
ConsolidatedBodyByCategory(fs, document_files) ==
    ReadUnits(fs, SelectSeq(document_files, LAMBDA f : f[1] = "jira")
                  \o SelectSeq(document_files, LAMBDA f : f[1] # "jira"))

ConsolidatedBody(fs, document_files) == ReadUnits(fs, document_files)

consolidate_documents(fs, document_files, disk_ok) ==
    IF ~disk_ok THEN Ret(RAISE, fs)
    ELSE Ret(FinalPath,
             WriteFile(fs, FinalPath,
                       <<HeaderBlock>> \o ConsolidatedBody(fs, document_files)))

\* ------------------------------------------------------------------- state
VARIABLES
    workflow,               \* which entry point runs: "agent", "chatbot" or "extractor"
    ticket,                 \* the ticket the tracker returned for the agent's run
    files,                  \* the documents folder: path -> blocks
    faults,                 \* failures shown so far by collaborators and disk
    processed_files,        \* DocumentContext.processed_files
    missing_documents,      \* DocumentContext.missing_documents
    user_provided_content,  \* DocumentContext.user_provided_content
    result,                 \* what the last DocumentAgent tool returned
    ops,                    \* gathering tool calls and folder events so far
    pc,                     \* TestGeniusChatbot: the step start() is at
    rounds,                 \* TestGeniusChatbot: passes of the loop of start()
    current_ticket,         \* TestGeniusChatbot.current_ticket
    current_epic,           \* TestGeniusChatbot.current_epic
    processed_documents,    \* TestGeniusChatbot.processed_documents
    final_content_path,     \* TestGeniusChatbot.final_content_path
    generated_document,     \* TestGeniusChatbot.generated_document: the artifact text it was drafted from
    extraction,             \* one call of the Text Extractor: its arguments and what it returned
    call,                   \* one direct call of a DocumentProcessor method: arguments, result
    document_type,          \* TestGeniusChatbot.document_type
    config,                 \* the fields of Config that are set (not None, not empty)
    clients,                \* TestGeniusChatbot: jira_client, doc_processor, ai_client are created
    run                     \* AutonomousTestGeniusRunner: the missing-document loop it is in

agentVars == <<processed_files, missing_documents, user_provided_content, result, ops>>
chatVars == <<pc, rounds, current_ticket, current_epic, processed_documents,
              final_content_path, generated_document, document_type>>
probeVars == <<extraction, call>>
startVars == <<config, clients>>
vars == <<workflow, ticket, files, faults, agentVars, chatVars, probeVars, startVars, run>>

NoTicket == [key |-> "none", issue_type |-> "none", attachments |-> << >>,
             description |-> << >>, epic_link |-> "none"]

\* ------------------------------------------------- DocumentAgent: results
ProcessedDocument(filepath, doc_type, source_ticket, filename, success, error_message) ==
    [filepath |-> filepath, document_type |-> doc_type,
     source_ticket |-> source_ticket, filename |-> filename,
     success |-> success, error_message |-> error_message]

MissingDocumentRequest(doc_type, ticket_key, options) ==
    [document_type |-> doc_type, ticket_key |-> ticket_key, options |-> options]

ToolResult(tool, value, requests, raised) ==
    [tool |-> tool, value |-> value, requests |-> requests, raised |-> raised]

\* the state a batch threads through its loop
Acc(fs, listing, results) == [files |-> fs, listing |-> listing, results |-> results]

Failures(results) == Cardinality({i \in DOMAIN results : ~results[i].success})

\* one pass of the loop body of process_prd_attachments / process_design_attachments
AttachmentStep(acc, attachment, download, doc_type, key, i) ==
    LET r == process_attachment(acc.files, attachment, download, doc_type, key, i)
    IN  IF r.filepath # NULL
        THEN Acc(r.files, Append(acc.listing, r.filepath),
                 Append(acc.results,
                        ProcessedDocument(r.filepath, doc_type, key,
                                          attachment.filename, TRUE, "")))
        ELSE Acc(r.files, acc.listing,
                 Append(acc.results,
                        ProcessedDocument(<< >>, doc_type, key, attachment.filename,
                                          FALSE, "Could not extract content")))

\* for i, attachment in enumerate(prd_attachments, 1)
RECURSIVE PrdLoop(_, _, _, _, _)
PrdLoop(acc, attachments, downloads, key, i) ==
    IF i > Len(attachments) THEN acc
    ELSE PrdLoop(AttachmentStep(acc, attachments[i], downloads[i], "prd", key, i),
                 attachments, downloads, key, i + 1)

\* faulty variant: the loop ends at the first attachment that fails
RECURSIVE DesignLoopUntilFailure(_, _, _, _, _)
DesignLoopUntilFailure(acc, attachments, downloads, key, i) ==
    IF i > Len(attachments) THEN acc
    ELSE LET next == AttachmentStep(acc, attachments[i], downloads[i],
                                    DesignDocType(attachments[i]), key, i)
         IN  IF ~Last(next.results).success THEN next
             ELSE DesignLoopUntilFailure(next, attachments, downloads, key, i + 1)

\* for i, attachment in enumerate(design_attachments, 1)
RECURSIVE DesignLoop(_, _, _, _, _)
DesignLoop(acc, attachments, downloads, key, i) ==
    IF i > Len(attachments) THEN acc
    ELSE DesignLoop(AttachmentStep(acc, attachments[i], downloads[i],
                                   DesignDocType(attachments[i]), key, i),
                    attachments, downloads, key, i + 1)

\* one pass of the loop body of process_confluence_links
ConfluenceStep(acc, link, answer, source_ticket, i) ==
    LET r == fetch_confluence_page(acc.files, link, answer, source_ticket, i)
        filename == <<"confluence-page", ToString(i)>>
    IN  IF r.filepath # NULL
        THEN Acc(r.files, Append(acc.listing, r.filepath),
                 Append(acc.results,
                        ProcessedDocument(r.filepath, "confluence", source_ticket,
                                          filename, TRUE, "")))
        ELSE Acc(r.files, acc.listing,
                 Append(acc.results,
                        ProcessedDocument(<< >>, "confluence", source_ticket, filename,
                                          FALSE, "Could not fetch page")))

\* for i, link in enumerate(confluence_links, 1)
RECURSIVE ConfluenceLoop(_, _, _, _, _)
ConfluenceLoop(acc, confluence_links, answers, source_ticket, i) ==
    IF i > Len(confluence_links) THEN acc
    ELSE ConfluenceLoop(ConfluenceStep(acc, confluence_links[i], answers[i],
                                       source_ticket, i),
                        confluence_links, answers, source_ticket, i + 1)

\* a wiki answer is drawn only for a request that is made
AnswersFor(links) ==
    {a \in [DOMAIN links -> WikiAnswers] :
        \A i \in DOMAIN links :
            _extract_confluence_page_id(links[i]) = NULL => a[i] = WikiPage}

\* ---------------------------------------------------- DocumentAgent tools
AgentStep(newFaults) ==
    /\ workflow = "agent"
    /\ ops < MaxOps
    /\ faults + newFaults <= MaxFaults
    /\ ops' = ops + 1
    /\ faults' = faults + newFaults
    /\ UNCHANGED <<workflow, ticket, chatVars, probeVars, startVars>>

\* consolidation adds nothing to the store: it may be called at any time
AgentConsolidateStep(newFaults) ==
    /\ workflow = "agent"
    /\ faults + newFaults <= MaxFaults
    /\ faults' = faults + newFaults
    /\ UNCHANGED <<workflow, ticket, chatVars, ops, probeVars, startVars>>

process_jira_content(ticket_data, disk_ok) ==
    LET r == save_jira_content(files, ticket_data, disk_ok)
    IN  /\ AgentStep(IF disk_ok THEN 0 ELSE 1)
        /\ files' = r.files
        /\ IF r.filepath # RAISE
           THEN /\ processed_files' = Append(processed_files, r.filepath)
                /\ result' = ToolResult("process_jira_content",
                                <<ProcessedDocument(r.filepath, "jira", ticket_data.key,
                                                    JiraPath(ticket_data.key), TRUE, "")>>,
                                << >>, FALSE)
           ELSE /\ processed_files' = processed_files
                /\ result' = ToolResult("process_jira_content",
                                <<ProcessedDocument(<< >>, "jira", ticket_data.key, << >>,
                                                    FALSE, "str(e)")>>,
                                << >>, FALSE)
        /\ UNCHANGED <<missing_documents, user_provided_content>>

PrdOptions == <<"Provide PRD content as text", "Provide PRD file path/URL",
                "Skip PRD and continue with available information",
                "Check parent Epic for PRD">>
ConfluenceOptions == <<"Provide Confluence page URL(s)",
                       "Provide additional documentation as text",
                       "Skip Confluence and continue with available information">>
DesignOptions == <<"Provide design document file path/URL",
                   "Provide design specifications as text",
                   "Skip design docs and continue with available information">>

\* faulty variant: the wiki and design checks are made only for a ticket
\* without a requirements attachment
MissingChecksNested(ticket_data) ==
    LET noPrd == identify_prd_attachments(ticket_data) = << >>
        prd == IF noPrd
               THEN <<MissingDocumentRequest("prd", ticket_data.key, PrdOptions)>>
               ELSE << >>
        conf == IF noPrd /\ extract_confluence_links(ticket_data.description) = << >>
                THEN <<MissingDocumentRequest("confluence", ticket_data.key,
                                              ConfluenceOptions)>>
                ELSE << >>
        design == IF noPrd /\ identify_hld_lld_attachments(ticket_data) = << >>
                  THEN <<MissingDocumentRequest("design", ticket_data.key, DesignOptions)>>
                  ELSE << >>
    IN  [requests |-> prd \o conf \o design,
         missing |-> (IF prd = << >> THEN << >> ELSE <<"PRD">>)
                     \o (IF conf = << >> THEN << >> ELSE <<"Confluence">>)
                     \o (IF design = << >> THEN << >> ELSE <<"Design Documents">>)]

\* the three checks of check_for_missing_documents: [requests, missing]
MissingChecks(ticket_data) ==
    LET prd == IF identify_prd_attachments(ticket_data) = << >>
               THEN <<MissingDocumentRequest("prd", ticket_data.key, PrdOptions)>>
               ELSE << >>
        conf == IF extract_confluence_links(ticket_data.description) = << >>
                THEN <<MissingDocumentRequest("confluence", ticket_data.key,
                                              ConfluenceOptions)>>
                ELSE << >>
        design == IF identify_hld_lld_attachments(ticket_data) = << >>
                  THEN <<MissingDocumentRequest("design", ticket_data.key, DesignOptions)>>
                  ELSE << >>
    IN  [requests |-> prd \o conf \o design,
         missing |-> (IF prd = << >> THEN << >> ELSE <<"PRD">>)
                     \o (IF conf = << >> THEN << >> ELSE <<"Confluence">>)
                     \o (IF design = << >> THEN << >> ELSE <<"Design Documents">>)]

check_for_missing_documents(ticket_data) ==
    LET c == MissingChecks(ticket_data)
    IN  /\ AgentStep(0)
        /\ missing_documents' = missing_documents \o c.missing
        /\ result' = ToolResult("check_for_missing_documents", << >>, c.requests, FALSE)
        /\ UNCHANGED <<files, processed_files, user_provided_content>>

\* faulty variant: content the user provides takes its category off the
\* list of missing documents
ProcessUserContentResolving(content_type, content, ticket_key, disk_ok) ==
    LET doc_type == <<"user-provided", Lower(content_type)>>
        r == save_user_content(files, content, UserContentPath(content_type, ticket_key))
        label == IF Lower(content_type) = "prd" THEN "PRD" ELSE "Design Documents"
        open(entry) == entry # label
    IN  /\ AgentStep(IF disk_ok THEN 0 ELSE 1)
        /\ IF disk_ok
           THEN /\ files' = r.files
                /\ processed_files' = Append(processed_files, r.filepath)
                /\ user_provided_content' = Append(user_provided_content, content_type)
                /\ missing_documents' = SelectSeq(missing_documents, open)
                /\ result' = ToolResult("process_user_provided_content",
                                <<ProcessedDocument(r.filepath, doc_type, ticket_key,
                                                    r.filepath, TRUE, "")>>,
                                << >>, FALSE)
           ELSE /\ result' = ToolResult("process_user_provided_content",
                                <<ProcessedDocument(<< >>, doc_type, ticket_key, << >>,
                                                    FALSE, "str(e)")>>,
                                << >>, FALSE)
                /\ UNCHANGED <<files, processed_files, user_provided_content,
                               missing_documents>>

process_user_provided_content(content_type, content, ticket_key, disk_ok) ==
    LET doc_type == <<"user-provided", Lower(content_type)>>
        r == save_user_content(files, content, UserContentPath(content_type, ticket_key))
    IN  /\ AgentStep(IF disk_ok THEN 0 ELSE 1)
        /\ IF disk_ok
           THEN /\ files' = r.files
                /\ processed_files' = Append(processed_files, r.filepath)
                /\ user_provided_content' = Append(user_provided_content, content_type)
                /\ result' = ToolResult("process_user_provided_content",
                                <<ProcessedDocument(r.filepath, doc_type, ticket_key,
                                                    r.filepath, TRUE, "")>>,
                                << >>, FALSE)
           ELSE /\ result' = ToolResult("process_user_provided_content",
                                <<ProcessedDocument(<< >>, doc_type, ticket_key, << >>,
                                                    FALSE, "str(e)")>>,
                                << >>, FALSE)
                /\ UNCHANGED <<files, processed_files, user_provided_content>>
        /\ UNCHANGED missing_documents

\* if "confluence" in url.lower(): fetch_confluence_page(url, ticket_key, 1)
\* else: fetch_document_from_url(url, content_type, ticket_key)
FetchUserUrl(fs, url, wiki, http, content_type, ticket_key) ==
    IF Contains(LowerAll(UrlTokens(url)), "confluence")
    THEN fetch_confluence_page(fs, url, wiki, ticket_key, 1)
    ELSE fetch_document_from_url(fs, url, http, content_type, ticket_key)

process_user_provided_url(url, wiki, http, content_type, ticket_key) ==
    LET r == FetchUserUrl(files, url, wiki, http, content_type, ticket_key)
        doc_type == <<"user-provided", Lower(content_type)>>
        viaWiki == Contains(LowerAll(UrlTokens(url)), "confluence")
    IN  /\ viaWiki => http = HttpPdf
        /\ ~viaWiki => wiki = WikiPage
        /\ (viaWiki /\ _extract_confluence_page_id(url) = NULL) => wiki = WikiPage
        /\ AgentStep(IF r.filepath = NULL
                        /\ ~(viaWiki /\ _extract_confluence_page_id(url) = NULL)
                     THEN 1 ELSE 0)
        /\ files' = r.files
        /\ IF r.filepath # NULL
           THEN /\ processed_files' = Append(processed_files, r.filepath)
                /\ user_provided_content' = Append(user_provided_content, content_type)
                /\ result' = ToolResult("process_user_provided_url",
                                <<ProcessedDocument(r.filepath, doc_type, ticket_key,
                                                    <<"user-provided", Lower(content_type),
                                                      ticket_key>>, TRUE, "")>>,
                                << >>, FALSE)
           ELSE /\ result' = ToolResult("process_user_provided_url",
                                <<ProcessedDocument(<< >>, doc_type, ticket_key, << >>,
                                                    FALSE, "Could not fetch content from URL")>>,
                                << >>, FALSE)
                /\ UNCHANGED <<processed_files, user_provided_content>>
        /\ UNCHANGED missing_documents

process_prd_attachments(ticket_data, downloads) ==
    LET prd_attachments == identify_prd_attachments(ticket_data)
        acc == PrdLoop(Acc(files, processed_files, << >>), prd_attachments, downloads,
                       ticket_data.key, 1)
    IN  /\ AgentStep(Failures(acc.results))
        /\ files' = acc.files
        /\ processed_files' = acc.listing
        /\ result' = ToolResult("process_prd_attachments", acc.results, << >>, FALSE)
        /\ UNCHANGED <<missing_documents, user_provided_content>>

process_design_attachments(ticket_data, downloads) ==
    LET design_attachments == identify_hld_lld_attachments(ticket_data)
        acc == DesignLoop(Acc(files, processed_files, << >>), design_attachments,
                          downloads, ticket_data.key, 1)
    IN  /\ AgentStep(Failures(acc.results))
        /\ files' = acc.files
        /\ processed_files' = acc.listing
        /\ result' = ToolResult("process_design_attachments", acc.results, << >>, FALSE)
        /\ UNCHANGED <<missing_documents, user_provided_content>>

process_confluence_links(confluence_links, answers, source_ticket) ==
    LET acc == ConfluenceLoop(Acc(files, processed_files, << >>), confluence_links,
                              answers, source_ticket, 1)
    IN  /\ AgentStep(Cardinality({i \in DOMAIN answers : ~answers[i].ok}))
        /\ files' = acc.files
        /\ processed_files' = acc.listing
        /\ result' = ToolResult("process_confluence_links", acc.results, << >>, FALSE)
        /\ UNCHANGED <<missing_documents, user_provided_content>>

\* the consolidate_documents tool: an error of the processor is raised again
agent_consolidate_documents(disk_ok) ==
    LET r == consolidate_documents(files, processed_files, disk_ok)
    IN  /\ AgentConsolidateStep(IF disk_ok THEN 0 ELSE 1)
        /\ files' = r.files
        /\ result' = ToolResult("consolidate_documents", << >>, << >>, r.filepath = RAISE)
        /\ UNCHANGED <<processed_files, missing_documents, user_provided_content>>

\* the environment: a stored unit's file is removed from the documents folder
\* before it is read (the case os.path.exists guards in consolidate_documents)
UnitFileLost(path) ==
    /\ path \in DOMAIN files
    /\ path # FinalPath
    /\ AgentStep(1)
    /\ files' = RemoveFile(files, path)
    /\ UNCHANGED <<processed_files, missing_documents, user_provided_content, result>>

\* get_processing_summary: it reads the context and changes nothing.
\* successful_docs are the entries of processed_files that are truthy; a
\* stored path is a non-empty string
get_processing_summary ==
    LET successful_docs == SelectSeq(processed_files, LAMBDA f : f # << >>)
        failed_count == Len(processed_files) - Len(successful_docs)
    IN  [total_documents |-> Len(processed_files),
         successful_documents |-> Len(successful_docs),
         failed_documents |-> failed_count,
         missing_documents |-> missing_documents,
         user_provided_content |-> user_provided_content]

AgentNext ==
    \/ \E disk_ok \in BOOLEAN : process_jira_content(ticket, disk_ok)
    \/ check_for_missing_documents(ticket)
    \/ \E ct \in ContentTypes, c \in UserTexts, disk_ok \in BOOLEAN :
          process_user_provided_content(ct, c, ticket.key, disk_ok)
    \/ \E u \in UserUrls, w \in WikiAnswers, h \in HttpAnswers, ct \in ContentTypes :
          process_user_provided_url(u, w, h, ct, ticket.key)
    \/ \E d \in [DOMAIN identify_prd_attachments(ticket) -> Downloads] :
          process_prd_attachments(ticket, d)
    \/ \E d \in [DOMAIN identify_hld_lld_attachments(ticket) -> Downloads] :
          process_design_attachments(ticket, d)
    \/ \E a \in AnswersFor(extract_confluence_links(ticket.description)) :
          process_confluence_links(extract_confluence_links(ticket.description), a,
                                   ticket.key)
    \/ \E disk_ok \in BOOLEAN : agent_consolidate_documents(disk_ok)

\* ------------------------------------------- AutonomousTestGeniusRunner
\* run_autonomous_workflow_with_interaction, from the check for missing
\* documents on: run.index is the request the loop of
\* _handle_missing_documents is at.
NoRun == [phase |-> "none"]

MaxTickets == 2

\* a ticket without attachments whose parent Epic has no requirements attachment
Epic2 == [key |-> "E-2", issue_type |-> "Epic",
          attachments |-> <<Notes>>, description |-> << >>, epic_link |-> "none"]
Story3 == [key |-> "T-3", issue_type |-> "Story",
           attachments |-> << >>, description |-> << >>, epic_link |-> "E-2"]

RunTickets == Tickets \cup {Story3}

\* jira_client.find_parent_epic: the Epic of the ticket's epic link, or None
ParentEpic(ticket_data) ==
    CASE ticket_data.epic_link = "E-1" -> Epic1
      [] ticket_data.epic_link = "E-2" -> Epic2
      [] OTHER -> NoTicket

\* the branch of _handle_missing_documents an option selects:
\* "provide" and "text"; "provide" and "url" or "path"; "parent epic"; "skip"
OptionKind(selected_option) ==
    CASE selected_option \in {"Provide PRD content as text",
                              "Provide additional documentation as text",
                              "Provide design specifications as text"} -> "text"
      [] selected_option \in {"Provide PRD file path/URL",
                              "Provide Confluence page URL(s)",
                              "Provide design document file path/URL"} -> "url"
      [] selected_option = "Check parent Epic for PRD" -> "parent"
      [] OTHER -> "skip"

CurrentRequest == run.requests[run.index]

\* the end of one pass of the loop: user_provided_docs.append on success
NextRequest(choice, success) ==
    run' = [run EXCEPT
               !.index = @ + 1,
               !.selected_option = CurrentRequest.options[choice],
               !.user_provided_docs =
                   IF success THEN Append(@, CurrentRequest.document_type) ELSE @,
               !.phase = IF run.index = Len(run.requests) THEN "handled" ELSE "resolving"]

AtRequest(choice, kind) ==
    /\ workflow = "agent"
    /\ run.phase = "resolving"
    /\ choice \in DOMAIN CurrentRequest.options
    /\ OptionKind(CurrentRequest.options[choice]) = kind

StoreUntouched ==
    UNCHANGED <<workflow, ticket, files, faults, agentVars, chatVars, probeVars, startVars>>

\* "Checking for missing critical documents": the requests the loop is given
StartResolution ==
    /\ run.phase = "start"
    /\ check_for_missing_documents(ticket)
    /\ run' = [phase |-> IF MissingChecks(ticket).requests = << >>
                         THEN "generation" ELSE "resolving",
               requests |-> MissingChecks(ticket).requests,
               index |-> 1, selected_option |-> "none", user_provided_docs |-> << >>,
               ticket_no |-> run.ticket_no]

\* the user provides the content as text: _process_user_content; answered is
\* FALSE when the run of the DocumentAgent raises
ProvideText(choice, content, answered, disk_ok) ==
    /\ AtRequest(choice, "text")
    /\ IF answered
       THEN process_user_provided_content(CurrentRequest.document_type, content,
                                          CurrentRequest.ticket_key, disk_ok)
       ELSE disk_ok /\ StoreUntouched
    /\ NextRequest(choice, answered)

\* the URLs the user may give: a wiki page by its pageId, a wiki page of
\* the hosted wiki, a document
RunUrls == UserUrls \cup {WikiA}

\* the user provides a URL or path: _process_user_url
ProvideUrl(choice, url, wiki, http, answered) ==
    /\ AtRequest(choice, "url")
    /\ IF answered
       THEN process_user_provided_url(url, wiki, http, CurrentRequest.document_type,
                                      CurrentRequest.ticket_key)
       ELSE wiki = WikiPage /\ http = HttpPdf /\ StoreUntouched
    /\ NextRequest(choice, answered)

\* "Check parent Epic": _check_parent_epic_for_documents runs the JiraAgent
\* and returns result.data is not None; data is FALSE when the agent returns
\* no ticket info or its run raises
CheckParentEpic(choice, data) ==
    /\ AtRequest(choice, "parent")
    /\ StoreUntouched
    /\ NextRequest(choice, data)

\* faulty variant: skipping stores an empty placeholder unit
SkipRequestWithPlaceholder(choice) ==
    /\ AtRequest(choice, "skip")
    /\ process_user_provided_content(CurrentRequest.document_type, << >>,
                                     CurrentRequest.ticket_key, TRUE)
    /\ NextRequest(choice, FALSE)

\* "Skip ... and continue with available information": a message is printed
SkipRequest(choice) ==
    /\ AtRequest(choice, "skip")
    /\ StoreUntouched
    /\ NextRequest(choice, FALSE)

\* after the loop: "Reprocessing documents with user-provided content" when
\* the user provided something, then Phase 3; an exception ends the run
ContinueToGeneration(disk_ok) ==
    /\ workflow = "agent"
    /\ run.phase = "handled"
    /\ IF run.user_provided_docs # << >>
       THEN agent_consolidate_documents(disk_ok)
       ELSE disk_ok /\ StoreUntouched
    /\ run' = [run EXCEPT !.phase = IF disk_ok THEN "generation" ELSE "error"]

\* AutonomousTestGenius.start: "Would you like to work on another ticket?"
\* (or "Would you like to continue?" after an error); the next ticket is run
\* by the same runner, whose DocumentContext is the one made in __init__
AnotherTicket(ticket_data) ==
    /\ workflow = "agent"
    /\ run.phase \in {"generation", "error"}
    /\ run.ticket_no < MaxTickets
    /\ ticket' = ticket_data
    /\ run' = [phase |-> "start", ticket_no |-> run.ticket_no + 1]
    /\ UNCHANGED <<workflow, files, faults, agentVars, chatVars, probeVars, startVars>>

RunNext ==
    \/ StartResolution
    \/ \E t \in RunTickets : AnotherTicket(t)
    \/ \E choice \in 1..4, content \in UserTexts, answered \in BOOLEAN, disk_ok \in BOOLEAN :
          ProvideText(choice, content, answered, disk_ok)
    \/ \E choice \in 1..4, u \in RunUrls, w \in WikiAnswers, h \in HttpAnswers,
          answered \in BOOLEAN : ProvideUrl(choice, u, w, h, answered)
    \/ \E choice \in 1..4, data \in BOOLEAN : CheckParentEpic(choice, data)
    \/ \E choice \in 1..4 : SkipRequest(choice)
    \/ \E disk_ok \in BOOLEAN : ContinueToGeneration(disk_ok)

\* ------------------------------------------------------- TestGeniusChatbot
\* start() runs the phases in order; pc is the step it is at.  An exception
\* that leaves a phase is caught by start(), which asks whether to continue.
ChatStep(at, newFaults) ==
    /\ workflow = "chatbot"
    /\ pc = at
    /\ faults + newFaults <= MaxFaults
    /\ faults' = faults + newFaults
    /\ UNCHANGED <<workflow, ticket, agentVars, probeVars, startVars, run>>

NoType == "<None>"            \* document_type = None

\* faulty variant: the issue type is compared as it is written
IsEpicCaseSensitive(ticket_data) == ticket_data.issue_type = "epic"

\* Config.validate_config: the required fields, and the check that raises
required_fields == {"AZURE_OPENAI_URL", "AZURE_OPENAI_API_KEY",
                    "AZURE_OPENAI_DEPLOYMENT_NAME", "JIRA_URL", "JIRA_USERNAME",
                    "JIRA_API_TOKEN"}

\* faulty variant: only the model's fields are required
ValidateModelFieldsOnly(cfg) ==
    {"AZURE_OPENAI_URL", "AZURE_OPENAI_API_KEY", "AZURE_OPENAI_DEPLOYMENT_NAME"}
        \subseteq cfg

\* TRUE when validate_config returns True, FALSE when it raises ValueError
validate_config(cfg) == \A field \in required_fields : field \in cfg

\* TestGeniusChatbot._initialize_components: validation, then the clients;
\* any exception ends the process (sys.exit(1)); created is FALSE when a
\* constructor of a client raises
_initialize_components(created) ==
    /\ workflow = "chatbot"
    /\ pc = "init"
    /\ ~validate_config(config) => created
    /\ IF validate_config(config) /\ created
       THEN clients' = TRUE /\ pc' = "phase1"
       ELSE clients' = FALSE /\ pc' = "exit"
    /\ UNCHANGED <<workflow, ticket, files, faults, agentVars, probeVars, config, rounds,
                   current_ticket, current_epic, processed_documents,
                   final_content_path, generated_document, document_type, run>>

\* a ticket with a design attachment and a wiki link, but no requirements
Story4 == [key |-> "T-4", issue_type |-> "Story",
           attachments |-> <<HldArch>>, description |-> <<WikiA>>, epic_link |-> "none"]

\* the tickets the user may name
ChatTickets == Tickets \cup {Story4}

\* jira_client.is_epic
is_epic(ticket_data) == Lower(ticket_data.issue_type) = "epic"

\* _phase_1_initiation: the ticket the user names is fetched; for a ticket
\* that is no Epic the parent Epic is searched for (found, given by hand, or not)
_phase_1_initiation(ticket_data, epic) ==
    /\ ChatStep("phase1", 0)
    /\ is_epic(ticket_data) => epic = NoTicket
    /\ current_ticket' = ticket_data
    /\ current_epic' = epic
    /\ document_type' = IF is_epic(ticket_data) THEN "Test Plan" ELSE "Test Cases"
    /\ pc' = "confirm_type"
    /\ UNCHANGED <<files, rounds, processed_documents, final_content_path,
                   generated_document>>

\* the end of _phase_1_initiation: "Does that sound right?"; a user who says
\* no is asked "Would you like Test Cases instead?"
ConfirmDocumentType(confirmed, wants_cases) ==
    /\ ChatStep("confirm_type", 0)
    /\ confirmed => wants_cases
    /\ document_type' = IF confirmed THEN document_type
                         ELSE IF wants_cases THEN "Test Cases" ELSE "Test Plan"
    /\ pc' = "save_jira"
    /\ UNCHANGED <<files, rounds, current_ticket, current_epic, processed_documents,
                   final_content_path, generated_document>>

\* one save of _save_jira_content: an error is printed and the listing kept
SaveJiraStep(acc, ticket_data, disk_ok) ==
    LET r == save_jira_content(acc.files, ticket_data, disk_ok)
    IN  IF r.filepath = RAISE THEN acc
        ELSE Acc(r.files, Append(acc.listing, r.filepath), acc.results)

\* faulty variant: the Epic is saved before the ticket the user named
SaveJiraEpicFirst(disk_ok, epic_disk_ok) ==
    LET first == IF current_epic # NoTicket
                 THEN SaveJiraStep(Acc(files, processed_documents, << >>), current_epic,
                                   epic_disk_ok)
                 ELSE Acc(files, processed_documents, << >>)
        acc == SaveJiraStep(first, current_ticket, disk_ok)
    IN  /\ current_epic = NoTicket => epic_disk_ok
        /\ ChatStep("save_jira", (IF disk_ok THEN 0 ELSE 1)
                                 + (IF epic_disk_ok THEN 0 ELSE 1))
        /\ files' = acc.files
        /\ processed_documents' = acc.listing
        /\ pc' = "prd"
        /\ UNCHANGED <<rounds, current_ticket, current_epic, final_content_path,
                       generated_document, document_type>>

_save_jira_content(disk_ok, epic_disk_ok) ==
    LET first == SaveJiraStep(Acc(files, processed_documents, << >>), current_ticket,
                              disk_ok)
        acc == IF current_epic # NoTicket
               THEN SaveJiraStep(first, current_epic, epic_disk_ok)
               ELSE first
    IN  /\ current_epic = NoTicket => epic_disk_ok
        /\ ChatStep("save_jira", (IF disk_ok THEN 0 ELSE 1)
                                 + (IF epic_disk_ok THEN 0 ELSE 1))
        /\ files' = acc.files
        /\ processed_documents' = acc.listing
        /\ pc' = "prd"
        /\ UNCHANGED <<rounds, current_ticket, current_epic, final_content_path,
                       generated_document, document_type>>

\* source_ticket of the loops of _process_prd_attachments / _process_design_documents
SourceTicket(attachment, epic_attachments) ==
    IF current_epic # NoTicket /\ attachment \in Range(epic_attachments)
    THEN current_epic.key ELSE current_ticket.key

\* one pass of the loop body: the outcome is only shown to the user
ChatAttachmentStep(acc, attachment, download, doc_type, source_ticket, i) ==
    LET r == process_attachment(acc.files, attachment, download, doc_type, source_ticket, i)
    IN  Acc(r.files,
            IF r.filepath # NULL THEN Append(acc.listing, r.filepath) ELSE acc.listing,
            Append(acc.results, r.filepath # NULL))

RECURSIVE ChatPrdLoop(_, _, _, _, _)
ChatPrdLoop(acc, attachments, downloads, epic_attachments, i) ==
    IF i > Len(attachments) THEN acc
    ELSE ChatPrdLoop(ChatAttachmentStep(acc, attachments[i], downloads[i], "prd",
                                        SourceTicket(attachments[i], epic_attachments), i),
                     attachments, downloads, epic_attachments, i + 1)

RECURSIVE ChatDesignLoop(_, _, _, _, _)
ChatDesignLoop(acc, attachments, downloads, epic_attachments, i) ==
    IF i > Len(attachments) THEN acc
    ELSE ChatDesignLoop(ChatAttachmentStep(acc, attachments[i], downloads[i],
                                           DesignDocType(attachments[i]),
                                           SourceTicket(attachments[i], epic_attachments), i),
                        attachments, downloads, epic_attachments, i + 1)

ChatPrdAttachments ==
    identify_prd_attachments(current_ticket)
    \o (IF current_epic # NoTicket THEN identify_prd_attachments(current_epic) ELSE << >>)

ChatDesignAttachments ==
    identify_hld_lld_attachments(current_ticket)
    \o (IF current_epic # NoTicket THEN identify_hld_lld_attachments(current_epic)
        ELSE << >>)

ManualPrdPath == <<"prd-manual-content.md">>

\* _process_prd_attachments: the batch, or - when nothing is attached - the
\* manual input the user may give (prd_content is << >> when declined or blank)
_process_prd_attachments(downloads, prd_content) ==
    LET acc == ChatPrdLoop(Acc(files, processed_documents, << >>), ChatPrdAttachments,
                           downloads, identify_prd_attachments(current_epic), 1)
        manual == save_markdown_file(files, prd_content, ManualPrdPath)
    IN  /\ ChatStep("prd", Cardinality({i \in DOMAIN acc.results : ~acc.results[i]}))
        /\ pc' = "design"
        /\ IF ChatPrdAttachments # << >>
           THEN /\ prd_content = << >>
                /\ files' = acc.files
                /\ processed_documents' = acc.listing
           ELSE IF prd_content # << >>
           THEN /\ files' = manual.files
                /\ processed_documents' = Append(processed_documents, manual.filepath)
           ELSE UNCHANGED <<files, processed_documents>>
        /\ UNCHANGED <<rounds, current_ticket, current_epic, final_content_path,
                       generated_document, document_type>>

\* faulty variant: the ticket is saved once more after the design documents
ProcessDesignThenTicket(downloads) ==
    LET acc == ChatDesignLoop(Acc(files, processed_documents, << >>), ChatDesignAttachments,
                              downloads, identify_hld_lld_attachments(current_epic), 1)
        again == SaveJiraStep(acc, current_ticket, TRUE)
    IN  /\ ChatStep("design", Cardinality({i \in DOMAIN acc.results : ~acc.results[i]}))
        /\ pc' = "confluence"
        /\ files' = again.files
        /\ processed_documents' = again.listing
        /\ UNCHANGED <<rounds, current_ticket, current_epic, final_content_path,
                       generated_document, document_type>>

\* _process_design_documents up to its call of _process_confluence_links
_process_design_documents(downloads) ==
    LET acc == ChatDesignLoop(Acc(files, processed_documents, << >>), ChatDesignAttachments,
                              downloads, identify_hld_lld_attachments(current_epic), 1)
    IN  /\ ChatStep("design", Cardinality({i \in DOMAIN acc.results : ~acc.results[i]}))
        /\ pc' = "confluence"
        /\ files' = acc.files
        /\ processed_documents' = acc.listing
        /\ UNCHANGED <<rounds, current_ticket, current_epic, final_content_path,
                       generated_document, document_type>>

\* confluence_links: (link, source ticket) pairs, the ticket's before the Epic's
ChatLinks ==
    [i \in DOMAIN extract_confluence_links(current_ticket.description) |->
        [link |-> extract_confluence_links(current_ticket.description)[i],
         source |-> current_ticket.key]]
    \o (IF current_epic # NoTicket
        THEN [i \in DOMAIN extract_confluence_links(current_epic.description) |->
                [link |-> extract_confluence_links(current_epic.description)[i],
                 source |-> current_epic.key]]
        ELSE << >>)

ChatLinkStep(acc, link, answer, source_ticket, page_number) ==
    LET r == fetch_confluence_page(acc.files, link, answer, source_ticket, page_number)
    IN  Acc(r.files,
            IF r.filepath # NULL THEN Append(acc.listing, r.filepath) ELSE acc.listing,
            Append(acc.results, r.filepath # NULL))

RECURSIVE ChatLinkLoop(_, _, _, _)
ChatLinkLoop(acc, links, answers, i) ==
    IF i > Len(links) THEN acc
    ELSE ChatLinkLoop(ChatLinkStep(acc, links[i].link, answers[i], links[i].source, i),
                      links, answers, i + 1)

\* _handle_manual_confluence_input: each URL is fetched as page
\* len(self.processed_documents) + 1 of the current ticket
RECURSIVE ManualConfluenceLoop(_, _, _, _)
ManualConfluenceLoop(acc, urls, answers, i) ==
    IF i > Len(urls) THEN acc
    ELSE ManualConfluenceLoop(ChatLinkStep(acc, urls[i], answers[i], current_ticket.key,
                                           Len(acc.listing) + 1),
                              urls, answers, i + 1)

ManualUrlLists == {<< >>, <<WikiC>>, <<WikiA, WikiC>>}

_process_confluence_links(answers, manual_urls, manual_answers) ==
    LET links == ChatLinks
        acc == IF links # << >>
               THEN ChatLinkLoop(Acc(files, processed_documents, << >>), links, answers, 1)
               ELSE ManualConfluenceLoop(Acc(files, processed_documents, << >>),
                                         manual_urls, manual_answers, 1)
    IN  /\ links # << >> => manual_urls = << >>
        /\ ChatStep("confluence",
                    Cardinality({i \in DOMAIN answers : ~answers[i].ok})
                    + Cardinality({i \in DOMAIN manual_answers : ~manual_answers[i].ok}))
        /\ pc' = "phase3"
        /\ files' = acc.files
        /\ processed_documents' = acc.listing
        /\ UNCHANGED <<rounds, current_ticket, current_epic, final_content_path,
                       generated_document, document_type>>

\* _phase_3_consolidation: nothing is consolidated when nothing was processed;
\* an error of consolidate_documents is printed and the phase returns
_phase_3_consolidation(disk_ok) ==
    LET r == consolidate_documents(files, processed_documents, disk_ok)
    IN  /\ pc' = "phase4"
        /\ IF processed_documents = << >>
           THEN /\ disk_ok
                /\ ChatStep("phase3", 0)
                /\ UNCHANGED <<files, final_content_path>>
           ELSE /\ ChatStep("phase3", IF disk_ok THEN 0 ELSE 1)
                /\ files' = r.files
                /\ final_content_path' = IF r.filepath = RAISE THEN final_content_path
                                         ELSE r.filepath
        /\ UNCHANGED <<rounds, current_ticket, current_epic, processed_documents,
                       generated_document, document_type>>

\* document_type.lower().replace(' ', '-')
Slug(doc_type) == IF doc_type = "Test Plan" THEN "test-plan" ELSE "test-cases"

GeneratedPath(doc_type, key) == <<"generated", Slug(doc_type), key, ".md">>

\* _phase_4_document_generation: the draft is made from the text read at
\* final_content_path; a failure of the model call leaves the phase
_phase_4_document_generation(ai_ok) ==
    /\ pc' = "phase5"
    /\ IF final_content_path = NULL \/ ~Exists(files, final_content_path)
       THEN /\ ai_ok
            /\ ChatStep("phase4", 0)
            /\ UNCHANGED <<files, generated_document, document_type>>
       ELSE /\ ChatStep("phase4", IF ai_ok THEN 0 ELSE 1)
            /\ IF ai_ok
               THEN /\ generated_document' = files[final_content_path]
                    /\ files' = save_markdown_file(files, <<"draft">>,
                                                   GeneratedPath(document_type, current_ticket.key)).files
               ELSE UNCHANGED <<files, generated_document, document_type>>
    /\ UNCHANGED <<rounds, current_ticket, current_epic, processed_documents,
                   final_content_path, document_type>>

FinalDocPath(doc_type, key) == <<"FINAL", Slug(doc_type), key, ".md">>

\* _phase_5_review_refinement, where the user approves the draft as it is,
\* and _phase_6_finalization: the draft is validated and saved as the final
\* document; raises is an exception of the validation call or of the save
_phase_6_finalization(raises) ==
    /\ ChatStep("phase5", 0)
    /\ generated_document = NULL => ~raises
    /\ pc' = IF raises THEN "error" ELSE "ask_again"
    /\ files' = IF generated_document = NULL \/ raises THEN files
                 ELSE save_markdown_file(files, <<"draft">>,
                                         FinalDocPath(document_type, current_ticket.key)).files
    /\ UNCHANGED <<rounds, current_ticket, current_epic, processed_documents,
                   final_content_path, generated_document, document_type>>

\* "Would you like to continue?" after an error: the loop starts over, and
\* phase 1 is skipped because current_ticket is set
ContinueAfterError ==
    /\ ChatStep("error", 0)
    /\ rounds < MaxRounds
    /\ rounds' = rounds + 1
    /\ pc' = IF current_ticket = NoTicket THEN "phase1" ELSE "save_jira"
    /\ UNCHANGED <<files, current_ticket, current_epic, processed_documents,
                   final_content_path, generated_document, document_type>>

\* "Would you like to work on another ticket?": _reset_session
_reset_session ==
    /\ ChatStep("ask_again", 0)
    /\ rounds < MaxRounds
    /\ rounds' = rounds + 1
    /\ pc' = "phase1"
    /\ current_ticket' = NoTicket
    /\ current_epic' = NoTicket
    /\ processed_documents' = << >>
    /\ final_content_path' = NULL
    /\ generated_document' = NULL
    /\ document_type' = NoType
    /\ files' = << >>          \* shutil.rmtree(DOCUMENTS_FOLDER)

\* the user declines: start() returns
Goodbye ==
    /\ workflow = "chatbot"
    /\ pc \in {"error", "ask_again"}
    /\ pc' = "done"
    /\ UNCHANGED <<workflow, ticket, files, faults, agentVars, probeVars, startVars, run, rounds,
                   current_ticket,
                   current_epic, processed_documents, final_content_path,
                   generated_document, document_type>>

ChatNext ==
    \/ \E created \in BOOLEAN : _initialize_components(created)
    \/ \E t \in ChatTickets, e \in {NoTicket, Epic1} : _phase_1_initiation(t, e)
    \/ \E confirmed \in BOOLEAN, wants_cases \in BOOLEAN :
          ConfirmDocumentType(confirmed, wants_cases)
    \/ \E d1 \in BOOLEAN, d2 \in BOOLEAN : _save_jira_content(d1, d2)
    \/ \E d \in [DOMAIN ChatPrdAttachments -> Downloads], c \in UserTexts \cup {<< >>} :
          _process_prd_attachments(d, c)
    \/ \E d \in [DOMAIN ChatDesignAttachments -> Downloads] : _process_design_documents(d)
    \/ \E u \in ManualUrlLists :
          \E a \in AnswersFor([i \in DOMAIN ChatLinks |-> ChatLinks[i].link]),
             m \in AnswersFor(u) : _process_confluence_links(a, u, m)
    \/ \E disk_ok \in BOOLEAN : _phase_3_consolidation(disk_ok)
    \/ \E ai_ok \in BOOLEAN : _phase_4_document_generation(ai_ok)
    \/ \E raises \in BOOLEAN : _phase_6_finalization(raises)
    \/ ContinueAfterError
    \/ _reset_session
    \/ Goodbye

\* ------------------------------------------- the Text Extractor on its own
Pending == <<"<pending>">>    \* the call has not returned

NoCall == [method |-> "none"]

NoExtraction == [content_bytes |-> Junk, filename |-> << >>, content_type |-> NULL,
                 text |-> Pending]

Filenames == {<<"a", ".pdf">>, <<"A", ".PDF">>, <<"b", ".docx">>, <<"c", ".txt">>,
              <<"d", ".html">>, <<"e", ".bin">>}

ContentTypeHints == {NULL, <<"application", "pdf">>, <<"application", "ms", "word">>,
                     <<"text", "html">>, <<"application", "octet-stream">>}

\* text_content = self._extract_text_from_bytes(content_bytes, filename, content_type)
ExtractText ==
    /\ workflow = "extractor"
    /\ extraction.text = Pending
    /\ extraction' = [extraction EXCEPT
                         !.text = _extract_text_from_bytes(extraction.content_bytes,
                                                           extraction.filename,
                                                           extraction.content_type)]
    /\ UNCHANGED <<workflow, ticket, files, faults, agentVars, chatVars, call, startVars, run>>

\* ------------------------------------ the Attachment Classifier on its own
\* file names: the words of a phrase joined by "_", then the extension
RECURSIVE Joined(_)
Joined(words) ==
    IF Len(words) <= 1 THEN words
    ELSE <<Head(words), "_">> \o Joined(Tail(words))

Named(words, ext) == [filename |-> Joined(words) \o <<ext>>,
                      content_type |-> <<"application", "octet-stream">>]

NamePhrases == {<<"prd">>, <<"PRD">>, <<"product", "requirement">>,
                <<"requirement", "document">>, <<"functional", "spec">>,
                <<"business", "requirement">>, <<"hld">>, <<"high", "level", "design">>,
                <<"lld">>, <<"low", "level", "design">>, <<"technical", "design">>,
                <<"architecture">>, <<"design", "document">>, <<"design", "notes">>,
                <<"random", "notes">>}

NameExtensions == {".pdf", ".doc", ".docx", ".txt"}

AttachmentPool == {PrdV2, HldArch, Notes, LldSpec}

\* attachment lists of up to n attachments of the pool
RECURSIVE ListsUpTo(_)
ListsUpTo(n) ==
    IF n = 0 THEN {<< >>}
    ELSE ListsUpTo(n - 1)
         \cup {Append(l, a) : l \in {m \in ListsUpTo(n - 1) : Len(m) = n - 1},
                               a \in AttachmentPool}

\* the tickets the classifier is called on: one without the attachments
\* field, one per single file name, one per list of pool attachments
ClassifierTickets ==
    {[key |-> "T-9"]}
    \cup {[key |-> "T-9", attachments |-> <<Named(w, e)>>] :
             w \in NamePhrases, e \in NameExtensions}
    \cup {[key |-> "T-9", attachments |-> l] : l \in ListsUpTo(MaxAttachments)}

\* both classifiers are called on call.ticket_data; the results of the first
\* and of the second call are kept
Classify ==
    /\ workflow = "classifier"
    /\ call.calls < 2
    /\ call' = IF call.calls = 0
               THEN [call EXCEPT !.calls = 1,
                                 !.prd = identify_prd_attachments(call.ticket_data),
                                 !.design = identify_hld_lld_attachments(call.ticket_data)]
               ELSE [call EXCEPT !.calls = 2,
                                 !.prd_again = identify_prd_attachments(call.ticket_data),
                                 !.design_again =
                                     identify_hld_lld_attachments(call.ticket_data)]
    /\ UNCHANGED <<workflow, ticket, files, faults, agentVars, chatVars, extraction,
                   startVars, run>>

\* ------------------------------------------- the wiki fetch, called directly
MaxSegments == 4

\* the URLs handed to fetch_confluence_page: a path of up to MaxSegments
\* segments, with or without a pageId parameter
WikiPaths ==
    UNION {[1..n -> {"pages", "123456", "42", "Title"}] : n \in 0..MaxSegments}

WikiUrls ==
    [host : {<<"example", ".atlassian.net">>}, path : WikiPaths,
     query : {<< >>, <<"pageId=", "777">>}]

\* fetch_confluence_page(call.page_url, "T-1", 1); requests counts the calls of
\* requests.get, which is reached only with a page id
FetchWikiPage ==
    LET r == fetch_confluence_page(files, call.page_url, call.answer, "T-1", 1)
        page_id == _extract_confluence_page_id(call.page_url)
    IN  /\ workflow = "wiki"
        /\ call.stage = "passed"
        /\ files' = r.files
        /\ call' = [call EXCEPT !.stage = "returned", !.page_id = page_id,
                                !.filepath = r.filepath,
                                !.requests = IF page_id = NULL THEN 0 ELSE 1]
        /\ UNCHANGED <<workflow, ticket, faults, agentVars, chatVars, extraction,
                       startVars, run>>

\* -------------------------------------------- the URL fetch, called directly
UrlSuffixes == {".pdf", ".docx", ".html", ".bin"}

FetchUrls ==
    {[host |-> <<"files", ".corp">>, path |-> <<"docs", "f", suffix>>, query |-> << >>] :
        suffix \in UrlSuffixes}

\* response.headers.get('content-type', '')
DeclaredTypes ==
    {<<"application", "pdf">>, <<"application", "ms", "word">>, <<"text", "html">>,
     <<"application", "octet-stream">>}

HttpResponses == [ok : {TRUE}, content_type : DeclaredTypes, content : Blobs]

\* fetch_document_from_url(call.url, "prd", "T-1"); text is what the stored
\* unit holds, NULL when the fetch returns None
FetchDocumentFromUrl ==
    LET r == fetch_document_from_url(files, call.url, call.answer, "prd", "T-1")
    IN  /\ workflow = "url"
        /\ call.stage = "passed"
        /\ files' = r.files
        /\ call' = [call EXCEPT !.stage = "returned", !.filepath = r.filepath,
                                !.text = IF r.filepath = NULL THEN NULL
                                         ELSE r.files[r.filepath][1].text]
        /\ UNCHANGED <<workflow, ticket, faults, agentVars, chatVars, extraction,
                       startVars, run>>

\* ------------------------------------------------- the store, called directly
MaxLines == 2

\* the texts handed to a save: up to MaxLines lines
StoreTexts ==
    UNION {[1..n -> {"u1", "u2"}] : n \in 0..MaxLines}

StoreNames ==
    {UserContentPath(content_type, key) :
        content_type \in ContentTypes, key \in {"T-1", "T-2", "E-1"}}

\* the wrapper save_user_content writes around the content
UserContentText(content) ==
    <<"# User-Provided Document", "", "**Source**: User Input",
      "**Created**: <timestamp>", "", "## Content", "">> \o content

\* the text of a block as the file holds it
BlockText(block) ==
    IF block.kind = "user" THEN UserContentText(block.text) ELSE block.text

\* open(filepath).read(): the text of the file at path
RECURSIVE ReadFile(_)
ReadFile(content) ==
    IF content = << >> THEN << >>
    ELSE BlockText(Head(content)) \o ReadFile(Tail(content))

\* save_markdown_file / save_user_content is called with call.content
StoreUnit ==
    /\ workflow = "store"
    /\ call.stage = "passed"
    /\ files' = IF call.method = "save_user_content"
                THEN save_user_content(files, call.content, call.filename).files
                ELSE save_markdown_file(files, call.content, call.filename).files
    /\ call' = [call EXCEPT !.stage = "stored"]
    /\ UNCHANGED <<workflow, ticket, faults, agentVars, chatVars, extraction, startVars, run>>

\* the stored location is read back
ReadBack ==
    /\ workflow = "store"
    /\ call.stage = "stored"
    /\ call' = [call EXCEPT !.stage = "read", !.read = ReadFile(files[call.filename])]
    /\ UNCHANGED <<workflow, ticket, files, faults, agentVars, chatVars, extraction,
                   startVars, run>>

InitIdle ==
    /\ files = << >>
    /\ faults = 0
    /\ processed_files = << >>
    /\ missing_documents = << >>
    /\ user_provided_content = << >>
    /\ result = ToolResult("none", << >>, << >>, FALSE)
    /\ ops = 0
    /\ run = NoRun

InitAgent ==
    /\ ticket \in Tickets
    /\ extraction = NoExtraction
    /\ call = NoCall
    /\ InitIdle

InitSession ==
    /\ rounds = 0
    /\ current_ticket = NoTicket
    /\ current_epic = NoTicket
    /\ processed_documents = << >>
    /\ final_content_path = NULL
    /\ generated_document = NULL
    /\ document_type = NoType

\* outside the chatbot: no session, a complete configuration, clients created
InitChat ==
    /\ pc = "phase1"
    /\ InitSession
    /\ config = required_fields
    /\ clients = TRUE

Init ==
    /\ workflow = "agent"
    /\ InitAgent
    /\ InitChat

InitChatbot ==
    /\ workflow = "chatbot"
    /\ ticket = NoTicket
    /\ extraction = NoExtraction
    /\ call = NoCall
    /\ InitIdle
    /\ pc = "init"
    /\ InitSession
    /\ config \in SUBSET required_fields
    /\ clients = FALSE

SpecChat == InitChatbot /\ [][ChatNext]_vars

InitExtract ==
    /\ workflow = "extractor"
    /\ ticket = NoTicket
    /\ extraction \in [content_bytes : Blobs, filename : Filenames,
                        content_type : ContentTypeHints, text : {Pending}]
    /\ call = NoCall
    /\ InitIdle
    /\ InitChat

SpecExtract == InitExtract /\ [][ExtractText]_vars

InitClassify ==
    /\ workflow = "classifier"
    /\ ticket = NoTicket
    /\ extraction = NoExtraction
    /\ call \in [method : {"identify"}, ticket_data : ClassifierTickets, calls : {0},
                  prd : {<< >>}, design : {<< >>}, prd_again : {<< >>},
                  design_again : {<< >>}]
    /\ InitIdle
    /\ InitChat

SpecClassify == InitClassify /\ [][Classify]_vars

\* ------------------------------------------------ JiraAgent: ticket details
\* the methods class JiraClient defines
JiraClientMethods == {"__init__", "extract_ticket_key", "get_ticket_details",
                      "find_parent_epic", "download_attachment",
                      "extract_confluence_links", "is_epic", "get_epic_stories",
                      "search_tickets"}

\* the tickets the tracker is asked for
TrackerTickets ==
    {[key |-> "T-9", issue_type |-> "Story", attachments |-> l,
      description |-> d, epic_link |-> "none"] :
        l \in ListsUpTo(MaxAttachments), d \in {<< >>, <<WikiA>>}}

NoTicketInfo == [key |-> "none"]

JiraTicketInfo(ticket_data, prd_attachments, design_attachments, confluence_links) ==
    [key |-> ticket_data.key,
     issue_type |-> ticket_data.issue_type,
     description |-> ticket_data.description,
     epic_link |-> ticket_data.epic_link,
     attachments |-> ticket_data.attachments,
     has_prd_attachments |-> Len(prd_attachments) > 0,
     has_design_attachments |-> Len(design_attachments) > 0,
     confluence_links |-> confluence_links]

\* fetch_ticket_details: the tracker's answer, then the two classifiers and
\* the link extractor looked up on context.jira_client. An attribute the
\* client lacks raises, and the except clause raises "Failed to fetch ticket".
fetch_ticket_details(ticket_data, tracker_ok, processed_tickets) ==
    IF ~tracker_ok
    THEN [raised |-> TRUE, info |-> NoTicketInfo, processed_tickets |-> processed_tickets]
    ELSE IF "identify_prd_attachments" \notin JiraClientMethods
    THEN [raised |-> TRUE, info |-> NoTicketInfo, processed_tickets |-> processed_tickets]
    ELSE IF "identify_hld_lld_attachments" \notin JiraClientMethods
    THEN [raised |-> TRUE, info |-> NoTicketInfo, processed_tickets |-> processed_tickets]
    ELSE [raised |-> FALSE,
          info |-> JiraTicketInfo(ticket_data,
                                  identify_prd_attachments(ticket_data),
                                  identify_hld_lld_attachments(ticket_data),
                                  extract_confluence_links(ticket_data.description)),
          processed_tickets |-> processed_tickets \cup {ticket_data.key}]

FetchTicketDetails ==
    /\ workflow = "jira"
    /\ ~call.done
    /\ LET r == fetch_ticket_details(call.ticket_data, call.tracker_ok,
                                     call.processed_tickets)
       IN  call' = [call EXCEPT !.done = TRUE, !.raised = r.raised, !.info = r.info,
                                !.processed_tickets = r.processed_tickets]
    /\ UNCHANGED <<workflow, ticket, files, faults, agentVars, chatVars, extraction,
                   startVars, run>>

InitJira ==
    /\ workflow = "jira"
    /\ ticket = NoTicket
    /\ extraction = NoExtraction
    /\ call \in [method : {"fetch_ticket_details"}, ticket_data : TrackerTickets,
                  tracker_ok : BOOLEAN, done : {FALSE}, raised : {FALSE},
                  info : {NoTicketInfo}, processed_tickets : {{}}]
    /\ InitIdle
    /\ InitChat

SpecJira == InitJira /\ [][FetchTicketDetails]_vars

InitStore ==
    /\ workflow = "store"
    /\ ticket = NoTicket
    /\ extraction = NoExtraction
    /\ call \in [method : {"save_markdown_file", "save_user_content"},
                  content : StoreTexts, filename : StoreNames, stage : {"passed"},
                  read : {<< >>}]
    /\ InitIdle
    /\ InitChat

SpecStore == InitStore /\ [][StoreUnit \/ ReadBack]_vars

InitWiki ==
    /\ workflow = "wiki"
    /\ ticket = NoTicket
    /\ extraction = NoExtraction
    /\ call \in [method : {"fetch_confluence_page"}, page_url : WikiUrls,
                  answer : WikiAnswers, stage : {"passed"}, page_id : {NULL},
                  filepath : {NULL}, requests : {0}]
    /\ InitIdle
    /\ InitChat

SpecWiki == InitWiki /\ [][FetchWikiPage]_vars

InitUrl ==
    /\ workflow = "url"
    /\ ticket = NoTicket
    /\ extraction = NoExtraction
    /\ call \in [method : {"fetch_document_from_url"}, url : FetchUrls,
                  answer : HttpResponses, stage : {"passed"}, filepath : {NULL},
                  text : {NULL}]
    /\ InitIdle
    /\ InitChat

SpecUrl == InitUrl /\ [][FetchDocumentFromUrl]_vars

InitRun ==
    /\ workflow = "agent"
    /\ ticket \in RunTickets
    /\ extraction = NoExtraction
    /\ call = NoCall
    /\ files = << >>
    /\ faults = 0
    /\ processed_files = << >>
    /\ missing_documents = << >>
    /\ user_provided_content = << >>
    /\ result = ToolResult("none", << >>, << >>, FALSE)
    /\ ops = 0
    /\ run = [phase |-> "start", ticket_no |-> 1]
    /\ InitChat

SpecRun == InitRun /\ [][RunNext]_vars

Next ==
    \/ AgentNext /\ UNCHANGED run
    \/ \E path \in DOMAIN files : UnitFileLost(path) /\ UNCHANGED run

Spec == Init /\ [][Next]_vars

\* ------------------------------------------------------------------ claims

\* C1: for a fixed (category, origin ticket) the numbers of the stored units
\* are 1, 2, 3, ... in the order they were stored: each unit's number is the
\* count of units of its category and origin stored before it, plus one, so a
\* fetch that failed has consumed no number.  (hld and lld count as the one
\* category "design".)
C1_SequenceNumbersCountStoredUnits ==
    \A i \in DOMAIN processed_files :
        LET p == processed_files[i]
            same(q) == /\ Len(q) = 6
                       /\ q[4] = p[4]
                       /\ q[3] = p[3]
                       /\ (q[1] = p[1] \/ {q[1], p[1]} \subseteq {"hld", "lld"})
            earlier == {j \in 1..(i - 1) : same(processed_files[j])}
        IN  (Len(p) = 6 /\ p[4] \in {"attachment", "page"})
                => p[5] = ToString(Cardinality(earlier) + 1)

\* C2: no store of a run overwrites the persisted text of a unit stored
\* earlier in the run: a unit file, once written, keeps its content.
C2_NoStoreOverwritesAnEarlierUnit ==
    [][\A p \in DOMAIN files \cap DOMAIN files' :
          p # FinalPath => files'[p] = files[p]]_vars

\* C3: a consolidation writes an artifact that holds, after the header, the
\* body of every listed stored unit in the order of the listing, each preceded
\* by the separator; nothing is reordered and no stored unit is left out.
C3_ArtifactFollowsListingOrder ==
    [][(result'.tool = "consolidate_documents" /\ ops' = ops /\ ~result'.raised)
        => LET listed == SelectSeq(processed_files, LAMBDA f : f \in DOMAIN files)
               artifact == files'[FinalPath]
           IN  /\ Len(artifact) = 1 + 2 * Len(listed)
               /\ artifact[1] = HeaderBlock
               /\ \A j \in DOMAIN listed :
                     /\ artifact[2 * j] = Separator
                     /\ artifact[2 * j + 1] = files[listed[j]][1]]_vars

\* a consolidation has run over a prd unit stored before the ticket's own unit
C3_Witness ==
    /\ result.tool = "consolidate_documents"
    /\ ~result.raised
    /\ FinalPath \in DOMAIN files
    /\ Len(files[FinalPath]) >= 5
    /\ files[FinalPath][3].kind = "prd"
    /\ files[FinalPath][5].kind = "jira"

\* C4: when a listed unit cannot be read at consolidation time, consolidation
\* fails with an error surfaced to the caller and writes no artifact.
C4_UnreadableUnitFailsConsolidation ==
    [][(/\ result'.tool = "consolidate_documents"
        /\ ops' = ops
        /\ \E i \in DOMAIN processed_files : processed_files[i] \notin DOMAIN files)
        => (result'.raised /\ files' = files)]_vars

\* C5: every workflow that reaches consolidation with nothing stored ends the
\* step with an artifact that holds the header and no unit.
C5_EmptyStoreYieldsHeaderOnlyArtifact ==
    [][(pc = "phase3" /\ pc' = "phase4" /\ processed_documents = << >>)
        => (FinalPath \in DOMAIN files' /\ files'[FinalPath] = <<HeaderBlock>>)]_vars

\* C6: a consolidation leaves one artifact, final-content.md, adds no other
\* file, changes no unit file, and the artifact holds exactly what this
\* consolidation produced: one header and the listed stored units, nothing of
\* the version it replaces.
C6_OneArtifactHoldingTheLatestConsolidation ==
    [][(pc = "phase3" /\ pc' = "phase4" /\ processed_documents # << >> /\ faults' = faults)
        => LET listed == SelectSeq(processed_documents, LAMBDA f : f \in DOMAIN files)
           IN  /\ final_content_path' = FinalPath
               /\ DOMAIN files' = DOMAIN files \cup {FinalPath}
               /\ \A q \in DOMAIN files \ {FinalPath} : files'[q] = files[q]
               /\ files'[FinalPath] =
                      [k \in 1..(1 + 2 * Len(listed)) |->
                          IF k = 1 THEN HeaderBlock
                          ELSE IF k % 2 = 0 THEN Separator
                          ELSE files[listed[(k - 1) \div 2]][1]]]_vars

\* a second consolidation has replaced the artifact the draft was made from
C6_Witness ==
    /\ pc = "phase4"
    /\ rounds >= 1
    /\ faults = 0
    /\ generated_document # NULL
    /\ FinalPath \in DOMAIN files
    /\ files[FinalPath] # generated_document

\* C7: the artifact the generation step reads holds every unit stored so far
\* in the run, also one that was added after an earlier consolidation.
C7_GenerationReadsEveryStoredUnit ==
    [][(/\ pc = "phase4" /\ pc' = "phase5"
        /\ final_content_path # NULL /\ final_content_path \in DOMAIN files
        /\ faults' = faults)
        => \A i \in DOMAIN processed_documents :
              processed_documents[i] \in DOMAIN files
                  => \E k \in DOMAIN generated_document' :
                        generated_document'[k] = files[processed_documents[i]][1]]_vars

\* C8: a fetching tool never raises; the listing grows by exactly the paths of
\* its successful outcomes, no file but those is written, a failed outcome
\* carries no path, a failed attachment carries the reason "Could not extract
\* content", and no attachment unit is stored with a null or empty text.
C8_FailedFetchStoresNothing ==
    [][(/\ ops' = ops + 1
        /\ DOMAIN files \subseteq DOMAIN files'
        /\ result'.tool \in {"process_prd_attachments", "process_design_attachments",
                             "process_confluence_links", "process_user_provided_url"})
        => LET stored == SelectSeq(result'.value, LAMBDA d : d.success)
           IN  /\ ~result'.raised
               /\ processed_files' = processed_files
                                     \o [i \in DOMAIN stored |-> stored[i].filepath]
               /\ \A q \in DOMAIN files' :
                     (q \notin DOMAIN files \/ files'[q] # files[q])
                         => \E i \in DOMAIN stored : stored[i].filepath = q
               /\ \A i \in DOMAIN result'.value :
                     ~result'.value[i].success
                         => /\ result'.value[i].filepath = << >>
                            /\ result'.tool \in {"process_prd_attachments",
                                                 "process_design_attachments"}
                                  => result'.value[i].error_message
                                         = "Could not extract content"
               /\ \A q \in DOMAIN files' :
                     (Len(q) = 6 /\ q[4] = "attachment")
                         => (files'[q][1].text # NULL /\ files'[q][1].text # << >>)]_vars

\* the only PRD attachment of the ticket could not be fetched: nothing is stored
C8_Witness ==
    /\ result.tool = "process_prd_attachments"
    /\ Len(result.value) = 1
    /\ ~result.value[1].success
    /\ result.value[1].error_message = "Could not extract content"
    /\ processed_files = << >>
    /\ files = << >>

\* C9: a batch yields one outcome per source, in input order, whatever the
\* failures among the sources.
C9_OneOutcomePerSourceInOrder ==
    /\ result.tool = "process_prd_attachments"
          => /\ Len(result.value) = Len(identify_prd_attachments(ticket))
             /\ \A i \in DOMAIN result.value :
                   result.value[i].filename = identify_prd_attachments(ticket)[i].filename
    /\ result.tool = "process_design_attachments"
          => /\ Len(result.value) = Len(identify_hld_lld_attachments(ticket))
             /\ \A i \in DOMAIN result.value :
                   result.value[i].filename
                       = identify_hld_lld_attachments(ticket)[i].filename
    /\ result.tool = "process_confluence_links"
          => /\ Len(result.value) = Len(extract_confluence_links(ticket.description))
             /\ \A i \in DOMAIN result.value :
                   result.value[i].filename = <<"confluence-page", ToString(i)>>

\* the first design attachment failed and the second one was stored
C9_Witness ==
    /\ result.tool = "process_design_attachments"
    /\ Len(result.value) = 2
    /\ ~result.value[1].success
    /\ result.value[2].success
    /\ result.value[2].filepath \in DOMAIN files

\* C10: the Text Extractor returns and never raises; when the extractor the
\* file name and content type select cannot read the bytes, or the content
\* type is absent and needed, the result is null; a PDF with a page that fails
\* gives null, not the text of its other pages.
C10_ExtractorFailsClosed ==
    LET name == LowerAll(extraction.filename)
        hint == extraction.content_type
        bytes == extraction.content_bytes
        byName(exts) == Len(name) > 0 /\ name[Len(name)] \in exts
        byHint(word) == hint # NULL /\ word \in Range(LowerAll(hint))
        asPdf == byName({".pdf"}) \/ byHint("pdf")
        asWord == ~asPdf /\ (byName({".docx", ".doc"}) \/ byHint("word"))
        unreadable(fmt) == bytes.fmt # fmt \/ BadPage \in Range(bytes.parts)
    IN  extraction.text # Pending
            => /\ extraction.text # RAISE
               /\ (asPdf /\ unreadable("pdf")) => extraction.text = NULL
               /\ (asWord /\ unreadable("docx")) => extraction.text = NULL
               /\ (hint = NULL /\ ~byName({".pdf"})) => extraction.text = NULL

\* a PDF whose second page fails was extracted
C10_Witness ==
    /\ extraction.content_bytes = BadPagePdf
    /\ extraction.filename = <<"a", ".pdf">>
    /\ extraction.text = NULL

\* C11: the extractor is chosen by the file name's suffix first: for a file
\* name with a recognised suffix (.pdf, .docx/.doc, .txt/.md, .html) and a
\* content type that is given, the result is what the extractor of that
\* suffix returns, whatever the content type says.
C11_SuffixDecidesBeforeContentType ==
    LET name == LowerAll(extraction.filename)
        bytes == extraction.content_bytes
        suffix == name[Len(name)]
    IN  (extraction.text # Pending /\ extraction.content_type # NULL)
            => /\ suffix = ".pdf" => extraction.text = _extract_pdf_text(bytes)
               /\ suffix \in {".docx", ".doc"}
                     => extraction.text = _extract_docx_text(bytes)
               /\ suffix \in {".txt", ".md"} => extraction.text = Decode(bytes)
               /\ suffix = ".html" => extraction.text = _extract_html_text(bytes)

\* C12: each classifier returns a subsequence of the attachment list in input
\* order, returns the same result when called again on the same ticket, and
\* returns the empty list for a ticket with no attachments or without the
\* attachments field.
C12_ClassifiersKeepOrderAndRepeat ==
    LET input == IF "attachments" \in DOMAIN call.ticket_data
                 THEN call.ticket_data.attachments ELSE << >>
        subsequence(r) ==
            \E f \in [DOMAIN r -> DOMAIN input] :
                /\ \A i \in DOMAIN r : r[i] = input[f[i]]
                /\ \A i \in DOMAIN r, j \in DOMAIN r : i < j => f[i] < f[j]
    IN  /\ call.calls >= 1
            => /\ subsequence(call.prd)
               /\ subsequence(call.design)
               /\ input = << >> => (call.prd = << >> /\ call.design = << >>)
        /\ call.calls = 2
            => (call.prd_again = call.prd /\ call.design_again = call.design)

\* both classifiers ran twice on a list of two design attachments, the lld first
C12_Witness ==
    /\ call.calls = 2
    /\ call.ticket_data = [key |-> "T-9", attachments |-> <<LldSpec, HldArch>>]
    /\ call.design_again = <<LldSpec, HldArch>>
    /\ call.prd_again = << >>

\* C13: the requirements classifier returns an attachment exactly when its
\* lower-cased file name holds one of the phrases "prd", "product requirement",
\* "requirement document", "functional spec", "business requirement" and ends
\* in .pdf, .doc or .docx.
C13_RequirementsPhrasesWithEveryExtension ==
    LET input == IF "attachments" \in DOMAIN call.ticket_data
                 THEN call.ticket_data.attachments ELSE << >>
        phrases == {<<"prd">>, <<"product", "requirement">>,
                    <<"requirement", "document">>, <<"functional", "spec">>,
                    <<"business", "requirement">>}
        holds(name, words) ==
            \E i \in DOMAIN name :
                \A k \in DOMAIN words :
                    /\ i + 2 * (k - 1) <= Len(name)
                    /\ name[i + 2 * (k - 1)] = words[k]
        expected(a) ==
            /\ \E w \in phrases : holds(LowerAll(a.filename), w)
            /\ Last(LowerAll(a.filename)) \in {".pdf", ".doc", ".docx"}
    IN  call.calls >= 1
            => \A i \in DOMAIN input :
                  (input[i] \in Range(call.prd)) <=> expected(input[i])

\* C14: the design classifier returns an attachment exactly when its
\* lower-cased file name holds one of the phrases "hld", "high level design",
\* "lld", "low level design", "technical design", "architecture", "design
\* document" and ends in .pdf, .doc or .docx.
C14_DesignPhrasesWithEveryExtension ==
    LET input == IF "attachments" \in DOMAIN call.ticket_data
                 THEN call.ticket_data.attachments ELSE << >>
        phrases == {<<"hld">>, <<"high", "level", "design">>, <<"lld">>,
                    <<"low", "level", "design">>, <<"technical", "design">>,
                    <<"architecture">>, <<"design", "document">>}
        holds(name, words) ==
            \E i \in DOMAIN name :
                \A k \in DOMAIN words :
                    /\ i + 2 * (k - 1) <= Len(name)
                    /\ name[i + 2 * (k - 1)] = words[k]
        expected(a) ==
            /\ \E w \in phrases : holds(LowerAll(a.filename), w)
            /\ Last(LowerAll(a.filename)) \in {".pdf", ".doc", ".docx"}
    IN  call.calls >= 1
            => \A i \in DOMAIN input :
                  (input[i] \in Range(call.design)) <=> expected(input[i])

\* ---------------------------------------------------------------------- C15
\* C15: what check_for_missing_documents returns for a ticket holds exactly
\* one request for each of the three categories (requirements, wiki, design)
\* whose own check finds nothing, and none for a category that has results,
\* whatever the other two checks find; a ticket without attachments and with
\* an empty description gets all three requests.
RequestsFor(requests, category) ==
    Cardinality({i \in DOMAIN requests : requests[i].document_type = category})

CategoryEmpty(ticket_data, category) ==
    CASE category = "prd" -> Len(identify_prd_attachments(ticket_data)) = 0
      [] category = "confluence" ->
             Len(extract_confluence_links(ticket_data.description)) = 0
      [] category = "design" -> Len(identify_hld_lld_attachments(ticket_data)) = 0

C15_OneRequestPerEmptyCategory ==
    result.tool = "check_for_missing_documents" =>
        /\ \A category \in {"prd", "confluence", "design"} :
              RequestsFor(result.requests, category)
                  = (IF CategoryEmpty(ticket, category) THEN 1 ELSE 0)
        /\ \A i \in DOMAIN result.requests :
              /\ result.requests[i].document_type \in {"prd", "confluence", "design"}
              /\ result.requests[i].ticket_key = ticket.key
        /\ (ticket.attachments = << >> /\ ticket.description = << >>)
              => Len(result.requests) = 3

\* a ticket that has a requirements attachment, but no wiki link the
\* patterns find and no design document, has been checked: two requests,
\* wiki and design, and none for the requirements
C15_Witness ==
    /\ result.tool = "check_for_missing_documents"
    /\ ~CategoryEmpty(ticket, "prd")
    /\ CategoryEmpty(ticket, "confluence")
    /\ CategoryEmpty(ticket, "design")
    /\ Len(result.requests) = 2
    /\ result.requests[1].document_type = "confluence"
    /\ result.requests[2].document_type = "design"

\* ---------------------------------------------------------------------- C16
\* C16: a category the resolver has recorded as missing stays recorded: every
\* step of the agent leaves the entries of missing_documents where they are
\* and at most appends to them, whether the user then provides text, provides
\* a URL or does nothing.
IsPrefix(s, t) == Len(s) <= Len(t) /\ \A i \in DOMAIN s : t[i] = s[i]

C16_MissingListOnlyGrows ==
    [][IsPrefix(missing_documents, missing_documents')]_vars

\* the user has provided the requirements text after they were found missing,
\* and the entry is still recorded
C16_Witness ==
    /\ result.tool = "process_user_provided_content"
    /\ result.value[1].success
    /\ "prd" \in Range(user_provided_content)
    /\ "PRD" \in Range(missing_documents)

\* ---------------------------------------------------------------------- C17
\* C17: a text stored through save_markdown_file or save_user_content and
\* read back from the location it was stored at is the text that was passed
\* to the save.
C17_ReadBackIsTheTextStored ==
    (workflow = "store" /\ call.stage = "read") => call.read = call.content

\* ---------------------------------------------------------------------- C18
\* C18 (as the claim states it): whenever the chatbot has written an
\* artifact, the first unit of the artifact is the unit of the ticket the
\* user named.
IsTicketUnit(block, ticket_data) ==
    block.kind = "jira" /\ block.source = <<ticket_data.key>>

TicketFirst(fs, listing, ticket_data) ==
    (listing # << >> /\ listing[1] = JiraPath(ticket_data.key) /\ Exists(fs, FinalPath))
        => /\ Len(fs[FinalPath]) >= 3
           /\ IsTicketUnit(fs[FinalPath][3], ticket_data)
           /\ \A i \in DOMAIN fs[FinalPath] :
                 fs[FinalPath][i].kind \in {"prd", "hld", "lld", "design"} => i > 3

C19_ConfigurationFailureIsFatalAtStartup ==
    (workflow = "chatbot" /\ required_fields \ config # {}) =>
        /\ ~clients
        /\ pc \in {"init", "exit"}
        /\ current_ticket = NoTicket
        /\ current_epic = NoTicket
        /\ processed_documents = << >>
        /\ files = << >>
        /\ faults = 0

\* the tracker's token is the one field missing, and the process has exited
C19_Witness ==
    /\ workflow = "chatbot"
    /\ config = required_fields \ {"JIRA_API_TOKEN"}
    /\ pc = "exit"
    /\ ~clients

HasPagesId(url, i) ==
    /\ i \in DOMAIN url.path /\ i + 2 <= Len(url.path)
    /\ url.path[i] = "pages" /\ IsDigits(url.path[i + 1])

HasSlashId(url, i) == i \in DOMAIN url.path /\ i < Len(url.path) /\ IsDigits(url.path[i])

HasQueryId(url) == url.query = <<"pageId=", "777">>

C21_FirstMatchingPatternGivesThePageId ==
    (workflow = "wiki" /\ call.stage = "returned") =>
        LET url == call.page_url
            byPages == \E i \in DOMAIN url.path : HasPagesId(url, i)
            bySlash == \E i \in DOMAIN url.path : HasSlashId(url, i)
        IN  /\ byPages =>
                \E i \in DOMAIN url.path :
                    /\ HasPagesId(url, i)
                    /\ \A j \in 1..(i - 1) : ~HasPagesId(url, j)
                    /\ call.page_id = <<url.path[i + 1]>>
            /\ (~byPages /\ HasQueryId(url)) => call.page_id = <<"777">>
            /\ (~byPages /\ ~HasQueryId(url) /\ bySlash) =>
                \E i \in DOMAIN url.path :
                    /\ HasSlashId(url, i)
                    /\ \A j \in 1..(i - 1) : ~HasSlashId(url, j)
                    /\ call.page_id = <<url.path[i]>>
            /\ (~byPages /\ ~HasQueryId(url) /\ ~bySlash) =>
                /\ call.page_id = NULL
                /\ call.requests = 0
                /\ call.filepath = NULL
                /\ files = << >>

\* a URL that all three patterns match: the page id is the one after
\* "/pages/", and the page is stored
C21_Witness ==
    /\ workflow = "wiki"
    /\ call.stage = "returned"
    /\ call.page_url.path = <<"42", "pages", "123456", "Title">>
    /\ call.page_url.query = <<"pageId=", "777">>
    /\ call.page_id = <<"123456">>
    /\ call.filepath # NULL
    /\ files # << >>

\* ---------------------------------------------------------------------- C22
\* C22: when the content type the response declares names pdf, word or html,
\* fetch_document_from_url extracts the text with the extractor of that
\* format, whatever the suffix of the URL is: the unit stored holds that
\* extractor's text, and nothing is stored when that extractor gives none.
ExtractorOfDeclaredType(detected, content) ==
    IF Contains(detected, "pdf") THEN _extract_pdf_text(content)
    ELSE IF Contains(detected, "word") THEN _extract_docx_text(content)
    ELSE _extract_html_text(content)

C22_DeclaredTypeDecidesBeforeUrlSuffix ==
    (workflow = "url" /\ call.stage = "returned"
       /\ \E format \in {"pdf", "word", "html"} : Contains(call.answer.content_type, format))
    => LET text == ExtractorOfDeclaredType(call.answer.content_type, call.answer.content)
       IN  call.text = (IF Truthy(text) THEN text ELSE NULL)

\* ---------------------------------------------------------------------- C23
\* C23: a pass of the loop of _handle_missing_documents in which the user
\* selects "skip" stores no unit and leaves the documents folder, the
\* listing, the missing list and the user-provided lists as they are; the
\* loop goes on to the next request, and after the last request the run goes
\* on to generation.
SkipTaken ==
    /\ run.phase = "resolving"
    /\ run'.phase \in {"resolving", "handled"}
    /\ run'.index = run.index + 1
    /\ OptionKind(run'.selected_option) = "skip"

C23_SkipLeavesTheStoreAlone ==
    [][/\ SkipTaken =>
            /\ files' = files
            /\ processed_files' = processed_files
            /\ user_provided_content' = user_provided_content
            /\ missing_documents' = missing_documents
            /\ run'.user_provided_docs = run.user_provided_docs
            /\ run'.requests = run.requests
            /\ run'.phase = (IF run.index < Len(run.requests)
                             THEN "resolving" ELSE "handled")
       /\ (run.phase = "handled" /\ run.user_provided_docs = << >>) =>
            /\ run'.phase = "generation"
            /\ files' = files
            /\ processed_files' = processed_files]_vars

\* the user provided the requirements as text and then skipped the wiki
\* request: the loop is at the third request and the store holds one unit
C23_Witness ==
    /\ run.phase = "resolving"
    /\ run.index = 3
    /\ OptionKind(run.selected_option) = "skip"
    /\ run.user_provided_docs = <<"prd">>
    /\ Len(processed_files) = 1
    /\ files # << >>

\* ---------------------------------------------------------------------- C24
\* C24: when the user selects "Check parent Epic" for the missing
\* requirements, they are reported as found (and counted among the documents
\* provided) only if the ticket has a parent Epic and the requirements
\* classifier finds an attachment of the parent.
C24_ParentFoundOnlyWithRequirementsAttachment ==
    (run.phase \in {"resolving", "handled"}
       /\ run.selected_option = "Check parent Epic for PRD"
       /\ "prd" \in Range(run.user_provided_docs))
    => /\ ParentEpic(ticket) # NoTicket
       /\ identify_prd_attachments(ParentEpic(ticket)) # << >>

\* ---------------------------------------------------------------------- C25
\* C25 (as the claim states it): the listing of the chatbot is always in the
\* canonical order: the ticket, the Epic, requirements attachments, design
\* attachments, wiki pages, and after all of these what the user supplied
\* (the requirements text typed in, the pages of URLs typed in).
CanonicalRank(path) ==
    CASE path = ManualPrdPath -> 6
      [] path[1] = "conf" /\ ChatLinks = << >> -> 6
      [] path[1] = "conf" -> 5
      [] path[1] \in {"hld", "lld"} -> 4
      [] path[1] = "prd" -> 3
      [] path = JiraPath(current_ticket.key) -> 1
      [] OTHER -> 2

C25_ListingInCanonicalOrder ==
    workflow = "chatbot" =>
        \A i, j \in DOMAIN processed_documents :
            i < j => CanonicalRank(processed_documents[i])
                        <= CanonicalRank(processed_documents[j])

\* C25 (amended): within one pass of the gathering phase the units are
\* appended in the order ticket, Epic, requirements, design, wiki pages, where
\* the requirements text the user types in when no requirements attachment is
\* found is appended at the place of the requirements, before the design
\* documents and the wiki pages, and the pages of URLs the user types in at
\* the place of the wiki pages.  Every step appends to the listing or, at a
\* reset, empties it.
UnitRank(path) ==
    CASE path = ManualPrdPath -> 3
      [] path[1] = "conf" -> 5
      [] path[1] \in {"hld", "lld"} -> 4
      [] path[1] = "prd" -> 3
      [] path = JiraPath(current_ticket.key) -> 1
      [] OTHER -> 2

StepRanks(at) ==
    CASE at = "save_jira" -> {1, 2}
      [] at = "prd" -> {3}
      [] at = "design" -> {4}
      [] at = "confluence" -> {5}
      [] OTHER -> {}

NextGatheringStep(at) ==
    CASE at = "save_jira" -> "prd"
      [] at = "prd" -> "design"
      [] at = "design" -> "confluence"
      [] at = "confluence" -> "phase3"

C25_EachPassAppendsInSourceOrder ==
    [][workflow = "chatbot" =>
          /\ \/ processed_documents' = << >>
             \/ /\ IsPrefix(processed_documents, processed_documents')
                /\ \A i \in (Len(processed_documents) + 1)..Len(processed_documents') :
                      /\ UnitRank(processed_documents'[i]) \in StepRanks(pc)
                      /\ \A j \in (Len(processed_documents) + 1)..(i - 1) :
                            UnitRank(processed_documents'[j])
                                <= UnitRank(processed_documents'[i])
          /\ pc \in {"save_jira", "prd", "design", "confluence"}
                => pc' = NextGatheringStep(pc)]_vars

\* a ticket with a design attachment and a wiki link but no requirements: the
\* text the user typed in is listed before the design document and the page
C25_Witness ==
    /\ workflow = "chatbot"
    /\ pc = "phase3"
    /\ Len(processed_documents) = 4
    /\ processed_documents[1] = JiraPath(current_ticket.key)
    /\ processed_documents[2] = ManualPrdPath
    /\ processed_documents[3][1] = "hld"
    /\ processed_documents[4][1] = "conf"

\* ---------------------------------------------------------------------- C26
\* C26: when the processing of a further ticket starts, nothing of an earlier
\* ticket is left: the listing, the missing list and the user-provided list
\* are empty.  For the autonomous workflow this is the state of the runner's
\* DocumentContext when the second ticket of a session is about to be checked.
C26_NewTicketStartsFromEmptyLists ==
    (workflow = "agent" /\ run.phase = "start" /\ run.ticket_no > 1) =>
        /\ processed_files = << >>
        /\ missing_documents = << >>
        /\ user_provided_content = << >>

\* ---------------------------------------------------------------------- C27
\* C27: no location is listed twice, neither in the listing of the chatbot
\* nor in the listing of the DocumentAgent, so that no unit is read twice
\* into the artifact, whatever steps are repeated for the same ticket.
NoDuplicates(listing) ==
    \A i, j \in DOMAIN listing : listing[i] = listing[j] => i = j

C27_NoLocationListedTwice ==
    /\ NoDuplicates(processed_documents)
    /\ NoDuplicates(processed_files)

\* ---------------------------------------------------------------------- C28
\* C28: a URL the user supplies that the wiki link extractor recognises as a
\* wiki page is fetched as a wiki page: every unit stored for such a URL is a
\* wiki page unit, none is a unit of the generic URL fetch.
IsWikiLink(url) == extract_confluence_links(<<url>>) # << >>

C28_WikiUrlsTakeTheWikiPath ==
    workflow = "agent" =>
        \A path \in DOMAIN files : \A i \in DOMAIN files[path] :
            \A url \in RunUrls :
                (IsWikiLink(url) /\ files[path][i].name = UrlTokens(url))
                    => files[path][i].kind = "confluence"

\* ---------------------------------------------------------------------- C29
\* C29: the counts of the processing summary agree with what happened.
\* successful_documents is the number of stored units listed, total_documents
\* is the sum of the two counts, and failed_documents covers the fetches that
\* the last gathering tool reported as failed; after the first tool call of
\* the run these are all the failures there are, so the count equals them.
GatheringTools == {"process_jira_content", "process_user_provided_content",
                   "process_user_provided_url", "process_prd_attachments",
                   "process_design_attachments", "process_confluence_links"}

C29_SummaryCountsAgreeWithOutcomes ==
    LET summary == get_processing_summary
    IN  workflow = "agent" =>
        /\ summary.total_documents
              = summary.successful_documents + summary.failed_documents
        /\ summary.successful_documents = Len(processed_files)
        /\ (result.tool \in GatheringTools /\ ~result.raised) =>
              /\ summary.failed_documents >= Failures(result.value)
              /\ ops = 1 => summary.failed_documents = Failures(result.value)

\* ---------------------------------------------------------------------- C30
\* C30: for a ticket the tracker returns, fetch_ticket_details returns the
\* ticket info without raising, records the ticket in processed_tickets, and
\* has_prd_attachments and has_design_attachments are true exactly when the
\* classifier's result for the ticket is non-empty.
C30_TicketDetailsOfAReturnedTicket ==
    (workflow = "jira" /\ call.done /\ call.tracker_ok) =>
        /\ ~call.raised
        /\ call.info.key = call.ticket_data.key
        /\ call.ticket_data.key \in call.processed_tickets
        /\ call.info.has_prd_attachments
              <=> (identify_prd_attachments(call.ticket_data) # << >>)
        /\ call.info.has_design_attachments
              <=> (identify_hld_lld_attachments(call.ticket_data) # << >>)

====
